---- MODULE Spec2Model ----
(***************************************************************************)
(* A model of Argus' ingest-to-broadcast core.                             *)
(*                                                                         *)
(*   - the Dead Letter Queue (package queue): Enqueue, Size, Stop,         *)
(*     replayWorker and processFiles, over a directory of files;           *)
(*   - the buffered WebSocket hub (package realtime): Run, flush,          *)
(*     Broadcast, Stop and HandleWebSocket with its writer goroutine;      *)
(*   - the queries behind the dashboard snapshot (package storage):        *)
(*     GetDashboardStats, GetTrafficMetrics, GetServiceMapMetrics and the  *)
(*     ORDER BY clause of GetTracesFiltered;                               *)
(*   - the time range the web client keeps in the URL (useTimeRange over   *)
(*     useFilterParam);                                                    *)
(*   - the ingestion filter and the debounced refresh of the snapshot hub, *)
(*     whose code is not among the sources: both follow their contracts.   *)
(*                                                                         *)
(* SpecDLQ, SpecHub, SpecStats, SpecMap, SpecTraffic, SpecTraces,          *)
(* SpecFilter, SpecSnap and SpecUrl are the state machines; each leaves    *)
(* the other components' variables unchanged.                              *)
(***************************************************************************)
EXTENDS Integers, Sequences, FiniteSets, TLC

(***************************************************************************)
(* Bounds of the model.                                                    *)
(***************************************************************************)
\* time.Now().UnixNano() takes its values in 1..MaxClock
MaxClock == 2
\* Broadcast is called at most MaxEntries times, with entries 1..MaxEntries
MaxEntries == 3
\* the hub's capacities, scaled down: h.maxBufferSize (100 in NewHub), the capacity
\* of h.broadcast (5000 in NewHub) and of a client's send channel (256 in
\* HandleWebSocket)
maxBufferSize == 2
BroadcastCap == 2
SendCap == 1
\* the traces table holds at most MaxRows rows
MaxRows == 2
\* for the service map the table holds up to MaxMapRows rows
MaxMapRows == 6
\* for the traffic series the table holds up to MaxTimedRows rows
MaxTimedRows == 3
\* the snapshot hub is followed for MaxTime ticks; T_debounce (5 s) is scaled to
\* ticks; at most MaxNotified NotifyRefresh calls are counted per window
MaxTime == 6
T_debounce == 2
MaxNotified == 3

VARIABLES
    \* ---- web client ----
    params,         \* the search params of window.location: key -> {} or {value}
    rangeParam,     \* the value of useFilterParam('range', null)
    fromParam,      \* the value of useFilterParam('from', null)
    toParam,        \* the value of useFilterParam('to', null)
    defaultRange,   \* the argument of useTimeRange
    mounted,        \* a page using useTimeRange is open
    lastSet,        \* the last call of setTimeRange or setCustomRange, and the params before it
    \* ---- DLQ ----
    files,          \* the batch_<nanos>.json files of d.dir: nanos -> [exists, data]
    foreign,        \* the other entries of d.dir (sub-directories, files that are not *.json)
    mu,             \* d.mu: "free" or the caller of Enqueue holding it
    enq,            \* per caller of Enqueue: [pc, name, data], its position and locals
    wpc,            \* position of the replayWorker goroutine
    wentries,       \* processFiles: entries, the listing of this cycle
    widx,           \* processFiles: index of the range loop over entries
    wdata,          \* processFiles: data, read from the current file
    werr,           \* processFiles: err, the result of d.replayFn(data)
    wlog,           \* history: the outcome of each iteration of this cycle's loop
    cycleRecovered, \* history: the store had recovered when this cycle listed the directory
    enqSince,       \* history: an Enqueue wrote to the directory since the last listing
    failed,         \* history: names whose last replayFn call failed
    storeRecovered, \* the store behind replayFn has recovered: replayFn succeeds from now on
    stopCh,         \* d.stopCh: "open" or "closed"
    stopPc,         \* position of the caller of Stop
    stopAt,         \* history: the worker was "idle" or in a "cycle" when Stop closed d.stopCh
    older,          \* history: <<m, n>> when the batch in file m was enqueued before that in n
    \* ---- Hub ----
    hpc,            \* position of the goroutine running Hub.Run
    hwg,            \* h.wg: its counter
    hstopCh,        \* h.stopCh: "open" or "closed"
    hstopPc,        \* position of the caller of Hub.Stop
    clients,        \* h.clients
    broadcast,      \* h.broadcast: the entries queued in the channel
    buffer,         \* h.buffer
    send,           \* per client: the messages queued in c.send
    sendClosed,     \* per client: c.send is closed
    closes,         \* history, per client: the number of close(c.send) calls
    stopEntry,      \* history: nextEntry when Stop was called (0: not called)
    hdl,            \* per client: position of HandleWebSocket (the reader)
    wr,             \* per client: position of the writer goroutine
    wmsg,           \* per client: msg, the message the writer is writing
    conn,           \* per client: the connection: "none", "open" or "closed"
    reported,       \* the last count passed to h.onConnectionChange
    nextEntry,      \* the entry the next Broadcast call carries
    delivered,      \* history, per client: the messages conn.Write has written
    flushLog,       \* history: the batches flush took from the buffer
    \* ---- storage ----
    db,             \* the rows of the traces table
    logs,           \* the rows of the logs table
    result,         \* what the last query returned: [fn, names, err, value]
    \* ---- ingestion filter ----
    fcfg,           \* the filter configuration: [min_severity, allowed_services, excluded_services]
    frec,           \* the last record handed to the filter
    fverdict,       \* what the filter answered for it
    \* ---- snapshot hub ----
    snow,           \* the time, in ticks
    lastSnapshot,   \* the time of the last snapshot
    timer,          \* the refresh timer: {} when idle, or {the time it is set to fire}
    notified,       \* history: NotifyRefresh calls since the last snapshot
    recomputed      \* history: the last recompute: [at, prev, notified]

dlqVars == <<files, foreign, mu, enq, wpc, wentries, widx, wdata, werr, wlog,
             cycleRecovered, enqSince, failed, storeRecovered, stopCh, stopPc,
             stopAt, older>>

hubVars == <<hpc, hwg, hstopCh, hstopPc, clients, broadcast, buffer, send, sendClosed,
             closes, stopEntry,
             hdl, wr, wmsg, conn, reported, nextEntry, delivered, flushLog>>

statVars == <<db, logs, result>>

filterVars == <<fcfg, frec, fverdict>>

snapVars == <<snow, lastSnapshot, timer, notified, recomputed>>

urlVars == <<params, rangeParam, fromParam, toParam, defaultRange, mounted, lastSet>>

vars == <<dlqVars, hubVars, statVars, filterVars, snapVars, urlVars>>

(***************************************************************************)
(* DLQ: the directory.                                                     *)
(***************************************************************************)
\* the callers of Enqueue (the batch writers)
Callers == {"w1", "w2"}

\* batches handed to Enqueue; a batch holding "NaN" is one json.Marshal rejects
Batches == {<<"r1">>, <<"r2", "r3">>, <<"NaN">>}

\* json.Marshal(batch): the JSON array of the batch's records
MarshalOK(b) == \A i \in 1..Len(b) : b[i] # "NaN"
Marshal(b) == <<"[">> \o b \o <<"]">>

\* fmt.Sprintf("batch_%d.json", nanos): the file is named by nanos alone
JsonNames == 1..MaxClock

NoFile == [exists |-> FALSE, data |-> <<>>]

\* a file "README.txt" and a sub-directory "archive.json"; both sort before "batch_..."
ForeignEntries ==
    { [name |-> -1, isDir |-> FALSE, ext |-> ".txt"],
      [name |-> 0, isDir |-> TRUE, ext |-> ".json"] }

DirEntries ==
    foreign \cup {[name |-> n, isDir |-> FALSE, ext |-> ".json"] :
                     n \in {m \in JsonNames : files[m].exists}}

\* the decimal digits %d prints for n > 0
RECURSIVE Digits(_)
Digits(n) == IF n < 10 THEN <<n>> ELSE Append(Digits(n \div 10), n % 10)

\* byte-wise order of two digit strings
RECURSIVE LexLeq(_, _)
LexLeq(s, t) ==
    IF s = <<>> THEN TRUE
    ELSE IF t = <<>> THEN FALSE
    ELSE IF Head(s) # Head(t) THEN Head(s) < Head(t)
    ELSE LexLeq(Tail(s), Tail(t))

\* order of two entry names as strings: "README.txt" < "archive.json" < "batch_<a>.json",
\* and "batch_<a>.json" <= "batch_<b>.json" by the digits of a and b
NameLeq(a, b) ==
    IF a <= 0 \/ b <= 0 THEN a <= b ELSE LexLeq(Digits(a), Digits(b))

\* SortByName listing the entries in descending order
RECURSIVE SortByNameDesc(_)
SortByNameDesc(S) ==
    IF S = {} THEN <<>>
    ELSE LET m == CHOOSE e \in S : \A o \in S : NameLeq(o.name, e.name)
         IN  <<m>> \o SortByNameDesc(S \ {m})

RECURSIVE SortByName(_)
SortByName(S) ==
    IF S = {} THEN <<>>
    ELSE LET m == CHOOSE e \in S : \A o \in S : NameLeq(e.name, o.name)
         IN  <<m>> \o SortByName(S \ {m})

\* os.ReadDir(d.dir): every entry, sorted by filename
ReadDir == SortByName(DirEntries)

\* IsJsonFile without the test for a directory
HasJsonExt(e) == e.ext = ".json"

\* !e.IsDir() && filepath.Ext(e.Name()) == ".json"
IsJsonFile(e) == ~e.isDir /\ e.ext = ".json"

\* the count Size() returns when ReadDir succeeds
Size == Cardinality({e \in DirEntries : IsJsonFile(e)})

\* Size(), by the outcome of its os.ReadDir: on error it logs and returns 0
SizeCall(ok) == IF ok THEN Size ELSE 0

\* the names of the batch files in the directory
Existing == {n \in JsonNames : files[n].exists}

\* the pairs of an order on names that do not involve n
Without(R, n) == {p \in R : p[1] # n /\ p[2] # n}

\* the contents Enqueue writes
MarshalledBatches == {Marshal(b) : b \in {x \in Batches : MarshalOK(x)}}

EnqIdle == [pc |-> "idle", name |-> 0, data |-> <<>>]

(***************************************************************************)
(* DLQ: Enqueue.                                                           *)
(***************************************************************************)
workerVars == <<wpc, wentries, widx, wdata, werr, wlog, cycleRecovered, failed>>

\* d.mu.Lock(); json.Marshal(batch); the file name from time.Now().UnixNano(), the
\* wall clock: it may return the same value twice and may be set back between calls.
\* A marshal error returns at once (the deferred Unlock runs).
EnqueueLock(c, b) ==
    /\ enq[c].pc = "idle"
    /\ mu = "free"
    /\ IF MarshalOK(b)
       THEN \E t \in 1..MaxClock :
              /\ enq' = [enq EXCEPT ![c] = [pc |-> "open", name |-> t, data |-> Marshal(b)]]
              /\ mu' = c
       ELSE UNCHANGED <<enq, mu>>
    /\ UNCHANGED <<files, foreign, enqSince, workerVars, storeRecovered, stopCh, stopPc>>
    /\ UNCHANGED <<stopAt, older>>
    /\ UNCHANGED <<hubVars, statVars, filterVars, snapVars, urlVars>>

\* os.WriteFile, first half: open with O_WRONLY|O_CREATE|O_TRUNC; on error return
EnqueueOpen(c) ==
    /\ enq[c].pc = "open"
    /\ \/ /\ files' = [files EXCEPT ![enq[c].name] = [exists |-> TRUE, data |-> <<>>]]
          /\ enq' = [enq EXCEPT ![c].pc = "write"]
          /\ enqSince' = TRUE
          /\ older' = Without(older, enq[c].name)
                         \cup {<<m, enq[c].name>> : m \in Existing \ {enq[c].name}}
          /\ UNCHANGED mu
       \/ /\ enq' = [enq EXCEPT ![c] = EnqIdle]
          /\ mu' = "free"
          /\ UNCHANGED <<files, enqSince, older>>
    /\ UNCHANGED <<foreign, workerVars, storeRecovered, stopCh, stopPc>>
    /\ UNCHANGED stopAt
    /\ UNCHANGED <<hubVars, statVars, filterVars, snapVars, urlVars>>

\* os.WriteFile, second half: write the data and close; then return (deferred Unlock).
\* A failed write leaves the file truncated.
EnqueueWrite(c) ==
    /\ enq[c].pc = "write"
    /\ \/ files' = [files EXCEPT ![enq[c].name].data = enq[c].data]
       \/ UNCHANGED files
    /\ enq' = [enq EXCEPT ![c] = EnqIdle]
    /\ mu' = "free"
    /\ UNCHANGED <<foreign, enqSince, workerVars, storeRecovered, stopCh, stopPc>>
    /\ UNCHANGED <<stopAt, older>>
    /\ UNCHANGED <<hubVars, statVars, filterVars, snapVars, urlVars>>

(***************************************************************************)
(* DLQ: replayWorker and processFiles.                                     *)
(***************************************************************************)
enqVars == <<mu, enq>>

\* a tick that starts processFiles wherever the worker is
WorkerTickAnytime ==
    /\ wpc # "exited"
    /\ wpc' = "list"
    /\ UNCHANGED <<files, foreign, enqVars, enqSince, wentries, widx, wdata, werr, wlog,
                   cycleRecovered, failed, storeRecovered, stopCh, stopPc>>
    /\ UNCHANGED <<stopAt, older>>
    /\ UNCHANGED <<hubVars, statVars, filterVars, snapVars, urlVars>>

\* select: case <-ticker.C: d.processFiles()
WorkerTick ==
    /\ wpc = "select"
    /\ wpc' = "list"
    /\ UNCHANGED <<files, foreign, enqVars, enqSince, wentries, widx, wdata, werr, wlog,
                   cycleRecovered, failed, storeRecovered, stopCh, stopPc>>
    /\ UNCHANGED <<stopAt, older>>
    /\ UNCHANGED <<hubVars, statVars, filterVars, snapVars, urlVars>>

\* select: case <-d.stopCh: return (deferred wg.Done)
WorkerStop ==
    /\ wpc = "select"
    /\ stopCh = "closed"
    /\ wpc' = "exited"
    /\ UNCHANGED <<files, foreign, enqVars, enqSince, wentries, widx, wdata, werr, wlog,
                   cycleRecovered, failed, storeRecovered, stopCh, stopPc>>
    /\ UNCHANGED <<stopAt, older>>
    /\ UNCHANGED <<hubVars, statVars, filterVars, snapVars, urlVars>>

\* WorkerList that keeps the mutex after the listing (no Unlock before the loop)
WorkerListKeepLock ==
    /\ wpc = "list"
    /\ mu = "free"
    /\ \/ /\ wentries' = ReadDir
          /\ widx' = 1
          /\ wpc' = "loop"
          /\ cycleRecovered' = storeRecovered
          /\ enqSince' = FALSE
          /\ mu' = "worker"
       \/ /\ wpc' = "select"
          /\ UNCHANGED <<wentries, widx, cycleRecovered, enqSince, mu>>
    /\ UNCHANGED <<files, foreign, enq, wdata, werr, wlog, failed, storeRecovered,
                   stopCh, stopPc>>
    /\ UNCHANGED <<stopAt, older>>
    /\ UNCHANGED <<hubVars, statVars, filterVars, snapVars, urlVars>>

\* d.mu.Lock(); entries, err := os.ReadDir(d.dir); d.mu.Unlock(); on error, return
WorkerList ==
    /\ wpc = "list"
    /\ mu = "free"
    /\ \/ /\ wentries' = ReadDir
          /\ widx' = 1
          /\ wpc' = "loop"
          /\ cycleRecovered' = storeRecovered
          /\ enqSince' = FALSE
       \/ /\ wpc' = "select"
          /\ UNCHANGED <<wentries, widx, cycleRecovered, enqSince>>
    /\ UNCHANGED <<files, foreign, enqVars, wdata, werr, wlog, failed, storeRecovered,
                   stopCh, stopPc>>
    /\ UNCHANGED <<stopAt, older>>
    /\ UNCHANGED <<hubVars, statVars, filterVars, snapVars, urlVars>>

\* the range loop is over: processFiles returns to the select
WorkerCycleEnd ==
    /\ wpc = "loop"
    /\ widx > Len(wentries)
    /\ wpc' = "select"
    /\ wentries' = <<>>
    /\ widx' = 0
    /\ wlog' = <<>>
    /\ cycleRecovered' = FALSE
    /\ UNCHANGED <<files, foreign, enqVars, enqSince, wdata, werr, failed, storeRecovered,
                   stopCh, stopPc>>
    /\ UNCHANGED <<stopAt, older>>
    /\ UNCHANGED <<hubVars, statVars, filterVars, snapVars, urlVars>>

\* if entry.IsDir() || filepath.Ext(entry.Name()) != ".json" { continue }
WorkerSkip ==
    /\ wpc = "loop"
    /\ widx <= Len(wentries)
    /\ ~IsJsonFile(wentries[widx])
    /\ widx' = widx + 1
    /\ wlog' = Append(wlog, "skip")
    /\ UNCHANGED <<files, foreign, enqVars, enqSince, wpc, wentries, wdata, werr,
                   cycleRecovered, failed, storeRecovered, stopCh, stopPc>>
    /\ UNCHANGED <<stopAt, older>>
    /\ UNCHANGED <<hubVars, statVars, filterVars, snapVars, urlVars>>

\* WorkerRead leaving the loop (break) instead of continuing on a read error
WorkerReadBreak ==
    /\ wpc = "loop"
    /\ widx <= Len(wentries)
    /\ IsJsonFile(wentries[widx])
    /\ \/ /\ files[wentries[widx].name].exists
          /\ wdata' = files[wentries[widx].name].data
          /\ wpc' = "replay"
          /\ UNCHANGED <<widx, wlog>>
       \/ /\ widx' = Len(wentries) + 1
          /\ wlog' = Append(wlog, "readerr")
          /\ UNCHANGED <<wdata, wpc>>
    /\ UNCHANGED <<files, foreign, enqVars, enqSince, wentries, werr, cycleRecovered,
                   failed, storeRecovered, stopCh, stopPc>>
    /\ UNCHANGED <<stopAt, older>>
    /\ UNCHANGED <<hubVars, statVars, filterVars, snapVars, urlVars>>

\* data, err := os.ReadFile(path); on error, continue.  The mutex is not held.
WorkerRead ==
    /\ wpc = "loop"
    /\ widx <= Len(wentries)
    /\ IsJsonFile(wentries[widx])
    /\ \/ /\ files[wentries[widx].name].exists
          /\ wdata' = files[wentries[widx].name].data
          /\ wpc' = "replay"
          /\ UNCHANGED <<widx, wlog>>
       \/ /\ widx' = widx + 1
          /\ wlog' = Append(wlog, "readerr")
          /\ UNCHANGED <<wdata, wpc>>
    /\ UNCHANGED <<files, foreign, enqVars, enqSince, wentries, werr, cycleRecovered,
                   failed, storeRecovered, stopCh, stopPc>>
    /\ UNCHANGED <<stopAt, older>>
    /\ UNCHANGED <<hubVars, statVars, filterVars, snapVars, urlVars>>

\* WorkerReplay returning from processFiles when replayFn fails
WorkerReplayReturn ==
    /\ wpc = "replay"
    /\ \E ok \in BOOLEAN :
          /\ storeRecovered => ok
          /\ IF ok
             THEN /\ werr' = "nil"
                  /\ wpc' = "remove"
                  /\ failed' = failed \ {wentries[widx].name}
                  /\ UNCHANGED <<widx, wdata, wlog>>
             ELSE /\ werr' = "none"
                  /\ wpc' = "loop"
                  /\ widx' = Len(wentries) + 1
                  /\ wdata' = <<>>
                  /\ wlog' = Append(wlog, "fail")
                  /\ failed' = failed \cup {wentries[widx].name}
    /\ UNCHANGED <<files, foreign, enqVars, enqSince, wentries, cycleRecovered,
                   storeRecovered, stopCh, stopPc>>
    /\ UNCHANGED <<stopAt, older>>
    /\ UNCHANGED <<hubVars, statVars, filterVars, snapVars, urlVars>>

\* WorkerReplay with the error of replayFn ignored: the file is removed either way
WorkerReplayIgnoreErr ==
    /\ wpc = "replay"
    /\ \E ok \in BOOLEAN :
          /\ storeRecovered => ok
          /\ werr' = IF ok THEN "nil" ELSE "error"
          /\ failed' = IF ok THEN failed \ {wentries[widx].name}
                              ELSE failed \cup {wentries[widx].name}
    /\ wpc' = "remove"
    /\ UNCHANGED <<files, foreign, enqVars, enqSince, wentries, widx, wdata, wlog,
                   cycleRecovered, storeRecovered, stopCh, stopPc>>
    /\ UNCHANGED <<stopAt, older>>
    /\ UNCHANGED <<hubVars, statVars, filterVars, snapVars, urlVars>>

\* err := d.replayFn(data): the callback succeeds once the store has recovered and
\* may succeed or fail before; on error, continue
WorkerReplay ==
    /\ wpc = "replay"
    /\ \E ok \in BOOLEAN :
          /\ storeRecovered => ok
          /\ IF ok
             THEN /\ werr' = "nil"
                  /\ wpc' = "remove"
                  /\ failed' = failed \ {wentries[widx].name}
                  /\ UNCHANGED <<widx, wdata, wlog>>
             ELSE /\ werr' = "none"   \* err is out of scope after continue
                  /\ wpc' = "loop"
                  /\ widx' = widx + 1
                  /\ wdata' = <<>>
                  /\ wlog' = Append(wlog, "fail")
                  /\ failed' = failed \cup {wentries[widx].name}
    /\ UNCHANGED <<files, foreign, enqVars, enqSince, wentries, cycleRecovered,
                   storeRecovered, stopCh, stopPc>>
    /\ UNCHANGED <<stopAt, older>>
    /\ UNCHANGED <<hubVars, statVars, filterVars, snapVars, urlVars>>

\* WorkerRemove that reports the removal but leaves the file in the directory
WorkerRemoveKeep ==
    /\ wpc = "remove"
    /\ mu = "free"
    /\ wlog' = Append(wlog, "removed")
    /\ wpc' = "loop"
    /\ widx' = widx + 1
    /\ wdata' = <<>>
    /\ werr' = "none"
    /\ UNCHANGED <<files, older, foreign, enqVars, enqSince, wentries, cycleRecovered,
                   failed, storeRecovered, stopCh, stopPc>>
    /\ UNCHANGED stopAt
    /\ UNCHANGED <<hubVars, statVars, filterVars, snapVars, urlVars>>

\* WorkerRemove returning from processFiles after the first replayed file
WorkerRemoveReturn ==
    /\ wpc = "remove"
    /\ mu = "free"
    /\ \/ /\ files[wentries[widx].name].exists
          /\ files' = [files EXCEPT ![wentries[widx].name] = NoFile]
          /\ older' = Without(older, wentries[widx].name)
          /\ wlog' = Append(wlog, "removed")
       \/ /\ wlog' = Append(wlog, "rmerr")
          /\ UNCHANGED <<files, older>>
    /\ wpc' = "loop"
    /\ widx' = Len(wentries) + 1
    /\ wdata' = <<>>
    /\ werr' = "none"
    /\ UNCHANGED <<foreign, enqVars, enqSince, wentries, cycleRecovered, failed,
                   storeRecovered, stopCh, stopPc>>
    /\ UNCHANGED stopAt
    /\ UNCHANGED <<hubVars, statVars, filterVars, snapVars, urlVars>>

\* d.mu.Lock(); os.Remove(path); d.mu.Unlock(): a failed removal is logged
WorkerRemove ==
    /\ wpc = "remove"
    /\ mu = "free"
    /\ \/ /\ files[wentries[widx].name].exists
          /\ files' = [files EXCEPT ![wentries[widx].name] = NoFile]
          /\ older' = Without(older, wentries[widx].name)
          /\ wlog' = Append(wlog, "removed")
       \/ /\ wlog' = Append(wlog, "rmerr")
          /\ UNCHANGED <<files, older>>
    /\ wpc' = "loop"
    /\ widx' = widx + 1
    /\ wdata' = <<>>
    /\ werr' = "none"
    /\ UNCHANGED <<foreign, enqVars, enqSince, wentries, cycleRecovered, failed,
                   storeRecovered, stopCh, stopPc>>
    /\ UNCHANGED stopAt
    /\ UNCHANGED <<hubVars, statVars, filterVars, snapVars, urlVars>>

(***************************************************************************)
(* DLQ: Stop, and the store behind the callback.                           *)
(***************************************************************************)
\* close(d.stopCh)
StopClose ==
    /\ stopPc = "idle"
    /\ stopCh' = "closed"
    /\ stopPc' = "wait"
    /\ stopAt' = IF wpc = "select" THEN "idle" ELSE "cycle"
    /\ UNCHANGED <<files, foreign, enqVars, enqSince, workerVars, storeRecovered>>
    /\ UNCHANGED older
    /\ UNCHANGED <<hubVars, statVars, filterVars, snapVars, urlVars>>

\* StopReturn without d.wg.Wait()
StopReturnNoWait ==
    /\ stopPc = "wait"
    /\ stopPc' = "returned"
    /\ UNCHANGED <<files, foreign, enqVars, enqSince, workerVars, storeRecovered, stopCh>>
    /\ UNCHANGED <<stopAt, older>>
    /\ UNCHANGED <<hubVars, statVars, filterVars, snapVars, urlVars>>

\* d.wg.Wait() returns once the worker has run wg.Done
StopReturn ==
    /\ stopPc = "wait"
    /\ wpc = "exited"
    /\ stopPc' = "returned"
    /\ UNCHANGED <<files, foreign, enqVars, enqSince, workerVars, storeRecovered, stopCh>>
    /\ UNCHANGED <<stopAt, older>>
    /\ UNCHANGED <<hubVars, statVars, filterVars, snapVars, urlVars>>

\* the store comes back: from here on replayFn returns nil
StoreRecovers ==
    /\ ~storeRecovered
    /\ storeRecovered' = TRUE
    /\ UNCHANGED <<files, foreign, enqVars, enqSince, workerVars, stopCh, stopPc>>
    /\ UNCHANGED <<stopAt, older>>
    /\ UNCHANGED <<hubVars, statVars, filterVars, snapVars, urlVars>>

(***************************************************************************)
(* DLQ: the state machine.                                                 *)
(***************************************************************************)
\* NewDLQ: the directory exists, the worker is started
InitDLQ ==
    /\ files = [n \in JsonNames |-> NoFile]
    /\ foreign = ForeignEntries
    /\ mu = "free"
    /\ enq = [c \in Callers |-> EnqIdle]
    /\ wpc = "select"
    /\ wentries = <<>>
    /\ widx = 0
    /\ wdata = <<>>
    /\ werr = "none"
    /\ wlog = <<>>
    /\ cycleRecovered = FALSE
    /\ enqSince = FALSE
    /\ failed = {}
    /\ storeRecovered = FALSE
    /\ stopCh = "open"
    /\ stopPc = "idle"
    /\ stopAt = "none"
    /\ older = {}

NextDLQ ==
    \/ \E c \in Callers, b \in Batches : EnqueueLock(c, b)
    \/ \E c \in Callers : EnqueueOpen(c)
    \/ \E c \in Callers : EnqueueWrite(c)
    \/ WorkerTick
    \/ WorkerStop
    \/ WorkerList
    \/ WorkerCycleEnd
    \/ WorkerSkip
    \/ WorkerRead
    \/ WorkerReplay
    \/ WorkerRemove
    \/ StopClose
    \/ StopReturn
    \/ StoreRecovers

(***************************************************************************)
(* Hub: flush.                                                             *)
(***************************************************************************)
Clients == {"c1", "c2"}

\* the clients flush finds with a full send channel (the default case of its select)
SlowClients == {c \in clients : Len(send[c]) >= SendCap}

\* Flush that skips a slow client instead of removing it
FlushKeepSlow(buf, cause) ==
    IF buf = <<>>
    THEN /\ buffer' = buf
         /\ UNCHANGED <<clients, send, sendClosed, closes, reported, flushLog>>
    ELSE /\ buffer' = <<>>
         /\ send' = [c \in Clients |->
                       IF c \in clients \ SlowClients THEN Append(send[c], buf) ELSE send[c]]
         /\ flushLog' = Append(flushLog, [batch |-> buf, cause |-> cause,
                                         marshalled |-> TRUE, to |-> clients \ SlowClients])
         /\ UNCHANGED <<clients, sendClosed, closes, reported>>

\* Flush that stops at the first slow client: the clients after it get nothing
FlushStopAtSlow(buf, cause) ==
    IF buf = <<>>
    THEN /\ buffer' = buf
         /\ UNCHANGED <<clients, send, sendClosed, closes, reported, flushLog>>
    ELSE /\ buffer' = <<>>
         /\ send' = [c \in Clients |->
                       IF c \in clients /\ SlowClients = {} THEN Append(send[c], buf)
                       ELSE send[c]]
         /\ sendClosed' = [c \in Clients |-> sendClosed[c] \/ c \in SlowClients]
         /\ closes' = [c \in Clients |-> closes[c] + (IF c \in SlowClients THEN 1 ELSE 0)]
         /\ clients' = clients \ SlowClients
         /\ reported' = IF SlowClients # {}
                        THEN Cardinality(clients \ SlowClients) ELSE reported
         /\ flushLog' = Append(flushLog, [batch |-> buf, cause |-> cause,
                                         marshalled |-> TRUE,
                                         to |-> IF SlowClients = {} THEN clients ELSE {}])

\* Flush without the check for an empty buffer
FlushEmptyToo(buf, cause) ==
    /\ buffer' = <<>>
    /\ send' = [c \in Clients |->
                  IF c \in clients \ SlowClients THEN Append(send[c], buf) ELSE send[c]]
    /\ sendClosed' = [c \in Clients |-> sendClosed[c] \/ c \in SlowClients]
    /\ closes' = [c \in Clients |-> closes[c] + (IF c \in SlowClients THEN 1 ELSE 0)]
    /\ clients' = clients \ SlowClients
    /\ reported' = IF SlowClients # {}
                   THEN Cardinality(clients \ SlowClients) ELSE reported
    /\ flushLog' = Append(flushLog, [batch |-> buf, cause |-> cause,
                                    marshalled |-> TRUE, to |-> clients \ SlowClients])

\* h.flush() of the buffer buf, called by the case `cause` of Run's select.
\* An empty buffer returns at once.  Otherwise the buffer is swapped for a new one
\* and the batch is marshalled (json.Marshal may fail: the batch is dropped) and
\* sent to every client without blocking; a client whose channel is full is
\* deleted from h.clients, its channel closed and the new count reported.
Flush(buf, cause) ==
    IF buf = <<>>
    THEN /\ buffer' = buf
         /\ UNCHANGED <<clients, send, sendClosed, closes, reported, flushLog>>
    ELSE /\ buffer' = <<>>
         /\ \/ /\ flushLog' = Append(flushLog, [batch |-> buf, cause |-> cause,
                                               marshalled |-> FALSE, to |-> {}])
               /\ UNCHANGED <<clients, send, sendClosed, closes, reported>>
            \/ /\ send' = [c \in Clients |->
                             IF c \in clients \ SlowClients
                             THEN Append(send[c], buf) ELSE send[c]]
               /\ sendClosed' = [c \in Clients |-> sendClosed[c] \/ c \in SlowClients]
               /\ closes' = [c \in Clients |-> closes[c] + (IF c \in SlowClients THEN 1 ELSE 0)]
               /\ clients' = clients \ SlowClients
               /\ reported' = IF SlowClients # {}
                              THEN Cardinality(clients \ SlowClients) ELSE reported
               /\ flushLog' = Append(flushLog, [batch |-> buf, cause |-> cause,
                                               marshalled |-> TRUE,
                                               to |-> clients \ SlowClients])

(***************************************************************************)
(* Hub: Run.                                                               *)
(***************************************************************************)
clientVars == <<hdl, wr, wmsg, conn, delivered>>

\* h.wg.Add(1); flushTicker := time.NewTicker(h.flushInterval)
RunStart ==
    /\ hpc = "init"
    /\ hpc' = "select"
    /\ hwg' = hwg + 1
    /\ UNCHANGED <<hstopCh, stopEntry, hstopPc, clients, broadcast, buffer, send, sendClosed, closes,
                   clientVars, reported, nextEntry, flushLog>>
    /\ UNCHANGED <<dlqVars, statVars, filterVars, snapVars, urlVars>>

\* RunStopCase returning without the flush of the remaining buffer
RunStopNoFlush ==
    /\ hpc = "select"
    /\ hstopCh = "closed"
    /\ hpc' = "exited"
    /\ hwg' = hwg - 1
    /\ UNCHANGED <<hstopCh, stopEntry, hstopPc, clients, broadcast, buffer, send, sendClosed, closes,
                   clientVars, reported, nextEntry, flushLog>>
    /\ UNCHANGED <<dlqVars, statVars, filterVars, snapVars, urlVars>>

\* a stop case that first drains h.broadcast into the buffer
RunStopDrain ==
    /\ hpc = "select"
    /\ hstopCh = "closed"
    /\ Flush(buffer \o broadcast, "stop")
    /\ broadcast' = <<>>
    /\ hpc' = "exited"
    /\ hwg' = hwg - 1
    /\ UNCHANGED <<hstopCh, stopEntry, hstopPc, clientVars, nextEntry>>
    /\ UNCHANGED <<dlqVars, statVars, filterVars, snapVars, urlVars>>

\* case <-h.stopCh: h.flush(); return (deferred flushTicker.Stop and h.wg.Done)
RunStopCase ==
    /\ hpc = "select"
    /\ hstopCh = "closed"
    /\ Flush(buffer, "stop")
    /\ hpc' = "exited"
    /\ hwg' = hwg - 1
    /\ UNCHANGED <<hstopCh, stopEntry, hstopPc, broadcast, clientVars, nextEntry>>
    /\ UNCHANGED <<dlqVars, statVars, filterVars, snapVars, urlVars>>

\* case c := <-h.register: the handler of c is blocked in `h.register <- c`.
\* The handler goes on to start the writer goroutine and to read.
RunRegister(c) ==
    /\ hpc = "select"
    /\ hdl[c] = "register"
    /\ clients' = clients \cup {c}
    /\ reported' = Cardinality(clients \cup {c})
    /\ hdl' = [hdl EXCEPT ![c] = "read"]
    /\ wr' = [wr EXCEPT ![c] = "recv"]
    /\ UNCHANGED <<hpc, hwg, hstopCh, stopEntry, hstopPc, broadcast, buffer, send, sendClosed, closes,
                   wmsg, conn, delivered, nextEntry, flushLog>>
    /\ UNCHANGED <<dlqVars, statVars, filterVars, snapVars, urlVars>>

\* RunUnregister without the check that the client is still in h.clients
RunUnregisterNoCheck(c) ==
    /\ hpc = "select"
    /\ wr[c] = "unregister"
    /\ clients' = clients \ {c}
    /\ sendClosed' = [sendClosed EXCEPT ![c] = TRUE]
    /\ closes' = [closes EXCEPT ![c] = @ + 1]
    /\ reported' = Cardinality(clients \ {c})
    /\ wr' = [wr EXCEPT ![c] = "close"]
    /\ UNCHANGED <<hpc, hwg, hstopCh, stopEntry, hstopPc, broadcast, buffer, send, hdl, wmsg,
                   conn, delivered, nextEntry, flushLog>>
    /\ UNCHANGED <<dlqVars, statVars, filterVars, snapVars, urlVars>>

\* RunUnregister without the call of h.onConnectionChange
RunUnregisterSilent(c) ==
    /\ hpc = "select"
    /\ wr[c] = "unregister"
    /\ IF c \in clients
       THEN /\ clients' = clients \ {c}
            /\ sendClosed' = [sendClosed EXCEPT ![c] = TRUE]
            /\ closes' = [closes EXCEPT ![c] = @ + 1]
       ELSE UNCHANGED <<clients, sendClosed, closes>>
    /\ wr' = [wr EXCEPT ![c] = "close"]
    /\ UNCHANGED <<hpc, hwg, hstopCh, stopEntry, hstopPc, broadcast, buffer, send, hdl, wmsg,
                   conn, delivered, nextEntry, flushLog, reported>>
    /\ UNCHANGED <<dlqVars, statVars, filterVars, snapVars, urlVars>>

\* case c := <-h.unregister: the writer of c is blocked in `h.unregister <- c`.
\* A client still in h.clients is deleted, its channel closed, the count reported.
RunUnregister(c) ==
    /\ hpc = "select"
    /\ wr[c] = "unregister"
    /\ IF c \in clients
       THEN /\ clients' = clients \ {c}
            /\ sendClosed' = [sendClosed EXCEPT ![c] = TRUE]
            /\ closes' = [closes EXCEPT ![c] = @ + 1]
            /\ reported' = Cardinality(clients \ {c})
       ELSE UNCHANGED <<clients, sendClosed, closes, reported>>
    /\ wr' = [wr EXCEPT ![c] = "close"]
    /\ UNCHANGED <<hpc, hwg, hstopCh, stopEntry, hstopPc, broadcast, buffer, send, hdl, wmsg,
                   conn, delivered, nextEntry, flushLog>>
    /\ UNCHANGED <<dlqVars, statVars, filterVars, snapVars, urlVars>>

\* the broadcast case putting the entry at the front of the buffer
RunBroadcastPrepend ==
    /\ hpc = "select"
    /\ broadcast # <<>>
    /\ broadcast' = Tail(broadcast)
    /\ IF Len(buffer) + 1 >= maxBufferSize
       THEN Flush(<<Head(broadcast)>> \o buffer, "size")
       ELSE /\ buffer' = <<Head(broadcast)>> \o buffer
            /\ UNCHANGED <<clients, send, sendClosed, closes, reported, flushLog>>
    /\ UNCHANGED <<hpc, hwg, hstopCh, stopEntry, hstopPc, clientVars, nextEntry>>
    /\ UNCHANGED <<dlqVars, statVars, filterVars, snapVars, urlVars>>

\* case entry := <-h.broadcast: append; flush when len(h.buffer) >= h.maxBufferSize
RunBroadcast ==
    /\ hpc = "select"
    /\ broadcast # <<>>
    /\ broadcast' = Tail(broadcast)
    /\ IF Len(buffer) + 1 >= maxBufferSize
       THEN Flush(Append(buffer, Head(broadcast)), "size")
       ELSE /\ buffer' = Append(buffer, Head(broadcast))
            /\ UNCHANGED <<clients, send, sendClosed, closes, reported, flushLog>>
    /\ UNCHANGED <<hpc, hwg, hstopCh, stopEntry, hstopPc, clientVars, nextEntry>>
    /\ UNCHANGED <<dlqVars, statVars, filterVars, snapVars, urlVars>>

\* a ticker that a size-triggered flush resets: the tick that was due is skipped
RunTickResetBySize ==
    /\ hpc = "select"
    /\ IF flushLog = <<>> THEN TRUE ELSE flushLog[Len(flushLog)].cause # "size"
    /\ Flush(buffer, "tick")
    /\ UNCHANGED <<hpc, hwg, hstopCh, stopEntry, hstopPc, broadcast, clientVars, nextEntry>>
    /\ UNCHANGED <<dlqVars, statVars, filterVars, snapVars, urlVars>>

\* the ticker case without its flush
RunTickNoFlush ==
    /\ hpc = "select"
    /\ UNCHANGED <<hubVars, statVars, filterVars, snapVars, urlVars>>
    /\ UNCHANGED <<dlqVars, statVars, filterVars, snapVars, urlVars>>

\* case <-flushTicker.C: h.flush()
RunTick ==
    /\ hpc = "select"
    /\ Flush(buffer, "tick")
    /\ UNCHANGED <<hpc, hwg, hstopCh, stopEntry, hstopPc, broadcast, clientVars, nextEntry>>
    /\ UNCHANGED <<dlqVars, statVars, filterVars, snapVars, urlVars>>

(***************************************************************************)
(* Hub: Broadcast and Stop.                                                *)
(***************************************************************************)
\* Broadcast that appends to h.buffer itself instead of sending on the channel
BroadcastIntoBuffer(entry) ==
    /\ buffer' = Append(buffer, entry)
    /\ UNCHANGED <<hpc, hwg, hstopCh, stopEntry, hstopPc, clients, broadcast, send,
                   sendClosed, closes, clientVars, reported, flushLog>>
    /\ UNCHANGED <<dlqVars, statVars, filterVars, snapVars, urlVars>>

\* Broadcast with a plain (blocking) channel send
BroadcastBlocking(entry) ==
    /\ Len(broadcast) < BroadcastCap
    /\ broadcast' = Append(broadcast, entry)
    /\ UNCHANGED <<hpc, hwg, hstopCh, stopEntry, hstopPc, clients, buffer, send, sendClosed, closes,
                   clientVars, reported, flushLog>>
    /\ UNCHANGED <<dlqVars, statVars, filterVars, snapVars, urlVars>>

\* select { case h.broadcast <- entry: default: }
Broadcast(entry) ==
    /\ broadcast' = IF Len(broadcast) < BroadcastCap
                    THEN Append(broadcast, entry) ELSE broadcast
    /\ UNCHANGED <<hpc, hwg, hstopCh, stopEntry, hstopPc, clients, buffer, send, sendClosed, closes,
                   clientVars, reported, flushLog>>
    /\ UNCHANGED <<dlqVars, statVars, filterVars, snapVars, urlVars>>

\* a caller (a receiver) hands the hub its next entry
BroadcastCall ==
    /\ nextEntry <= MaxEntries
    /\ nextEntry' = nextEntry + 1
    /\ Broadcast(nextEntry)

\* close(h.stopCh)
HubStopClose ==
    /\ hstopPc = "idle"
    /\ hstopCh' = "closed"
    /\ hstopPc' = "wait"
    /\ stopEntry' = nextEntry
    /\ UNCHANGED <<hpc, hwg, clients, broadcast, buffer, send, sendClosed, closes, clientVars,
                   reported, nextEntry, flushLog>>
    /\ UNCHANGED <<dlqVars, statVars, filterVars, snapVars, urlVars>>

\* h.wg.Wait() returns when the counter is zero
HubStopReturn ==
    /\ hstopPc = "wait"
    /\ hwg = 0
    /\ hstopPc' = "returned"
    /\ UNCHANGED <<hpc, hwg, hstopCh, stopEntry, clients, broadcast, buffer, send, sendClosed, closes,
                   clientVars, reported, nextEntry, flushLog>>
    /\ UNCHANGED <<dlqVars, statVars, filterVars, snapVars, urlVars>>

(***************************************************************************)
(* Hub: HandleWebSocket, its reader loop and its writer goroutine.         *)
(***************************************************************************)
hubCore == <<hpc, hwg, hstopCh, stopEntry, hstopPc, clients, broadcast, buffer, reported,
             nextEntry, flushLog>>

\* websocket.Accept: on error return; else c := &client{...} and `h.register <- c`
Accept(c) ==
    /\ hdl[c] = "none"
    /\ \/ /\ hdl' = [hdl EXCEPT ![c] = "register"]
          /\ conn' = [conn EXCEPT ![c] = "open"]
       \/ /\ hdl' = [hdl EXCEPT ![c] = "returned"]
          /\ UNCHANGED conn
    /\ UNCHANGED <<hubCore, send, sendClosed, closes, wr, wmsg, delivered>>
    /\ UNCHANGED <<dlqVars, statVars, filterVars, snapVars, urlVars>>

\* conn.Read returns an error (the peer is gone, or the connection was closed):
\* the reader loop breaks and HandleWebSocket returns.  The library closes the
\* connection on any error.
ReadError(c) ==
    /\ hdl[c] = "read"
    /\ hdl' = [hdl EXCEPT ![c] = "returned"]
    /\ conn' = [conn EXCEPT ![c] = "closed"]
    /\ UNCHANGED <<hubCore, send, sendClosed, closes, wr, wmsg, delivered>>
    /\ UNCHANGED <<dlqVars, statVars, filterVars, snapVars, urlVars>>

\* for msg := range c.send: take the next message, or leave the loop when the
\* channel is closed and drained (the deferred function runs)
WriterRecv(c) ==
    /\ wr[c] = "recv"
    /\ IF send[c] # <<>>
       THEN /\ wmsg' = [wmsg EXCEPT ![c] = Head(send[c])]
            /\ send' = [send EXCEPT ![c] = Tail(send[c])]
            /\ wr' = [wr EXCEPT ![c] = "write"]
       ELSE /\ sendClosed[c]
            /\ wr' = [wr EXCEPT ![c] = "unregister"]
            /\ UNCHANGED <<wmsg, send>>
    /\ UNCHANGED <<hubCore, sendClosed, closes, hdl, conn, delivered>>
    /\ UNCHANGED <<dlqVars, statVars, filterVars, snapVars, urlVars>>

\* conn.Write with a 5 s timeout: on error return (the deferred function runs).
\* A write on a closed connection fails; the library closes it on any error.
WriterWrite(c) ==
    /\ wr[c] = "write"
    /\ \/ /\ conn[c] = "open"
          /\ delivered' = [delivered EXCEPT ![c] = Append(delivered[c], wmsg[c])]
          /\ wr' = [wr EXCEPT ![c] = "recv"]
          /\ UNCHANGED conn
       \/ /\ conn' = [conn EXCEPT ![c] = "closed"]
          /\ wr' = [wr EXCEPT ![c] = "unregister"]
          /\ UNCHANGED delivered
    /\ wmsg' = [wmsg EXCEPT ![c] = <<>>]
    /\ UNCHANGED <<hubCore, send, sendClosed, closes, hdl>>
    /\ UNCHANGED <<dlqVars, statVars, filterVars, snapVars, urlVars>>

\* conn.Close(websocket.StatusNormalClosure, "closing"), after the unregister send
WriterClose(c) ==
    /\ wr[c] = "close"
    /\ wr' = [wr EXCEPT ![c] = "done"]
    /\ conn' = [conn EXCEPT ![c] = "closed"]
    /\ UNCHANGED <<hubCore, send, sendClosed, closes, hdl, wmsg, delivered>>
    /\ UNCHANGED <<dlqVars, statVars, filterVars, snapVars, urlVars>>

(***************************************************************************)
(* Storage: the tables and Go's slices.                                    *)
(***************************************************************************)
TraceIds == {"t1", "t2"}
Services == {"", "a", "b", "c"}
Statuses == {"STATUS_CODE_OK", "STATUS_CODE_ERROR"}

\* the rows of the traces table the queries look at
TraceRows == [trace_id : TraceIds, service_name : Services, status : Statuses,
              duration : {1000, 3000},     \* microseconds
              minute : {0, 1}]             \* timestamps, truncated to the minute


\* the minutes between start and end, the window of the snapshot
Window == {1}

\* the serviceNames arguments: no name (no filter), or one service
Filters == {{}, {"a"}}

\* strings.Contains(status, "ERROR"), status LIKE '%ERROR%'
IsError(st) == st = "STATUS_CODE_ERROR"

\* order of the service names as strings
SvcRank == ("" :> 0) @@ ("a" :> 1) @@ ("b" :> 2) @@ ("c" :> 3)

\* a Go slice: nil (`var s []T`), or allocated; json.Marshal writes null for nil
NilSlice == [isNil |-> TRUE, items |-> <<>>]
MakeSlice == [isNil |-> FALSE, items |-> <<>>]
GoAppend(s, x) == [isNil |-> FALSE, items |-> Append(s.items, x)]

RECURSIVE AppendAll(_, _)
AppendAll(s, xs) == IF xs = <<>> THEN s ELSE AppendAll(GoAppend(s, Head(xs)), Tail(xs))

\* a float64 quotient, kept exact
Ratio(n, d) == [num |-> n, den |-> d]
ZeroFloat == Ratio(0, 1)

\* WHERE timestamp BETWEEN start AND end [AND service_name IN names]
Matching(names) ==
    {r \in db : r.minute \in Window /\ (names = {} \/ r.service_name \in names)}

MatchingLogs(names) ==
    {l \in logs : l.minute \in Window /\ (names = {} \/ l.service_name \in names)}

RECURSIVE SumDuration(_)
SumDuration(T) ==
    IF T = {} THEN 0
    ELSE LET r == CHOOSE x \in T : TRUE IN r.duration + SumDuration(T \ {r})

\* the durations of the rows, sorted ascending (sort.Slice)
RECURSIVE SortedDurations(_)
SortedDurations(T) ==
    IF T = {} THEN <<>>
    ELSE LET r == CHOOSE x \in T : \A y \in T : x.duration <= y.duration
         IN  <<r.duration>> \o SortedDurations(T \ {r})

\* int(math.Ceil(float64(n)*0.99)) - 1, clamped to 0..n-1; the slice is 0-based
P99Latency(T) ==
    LET n == Cardinality(T)
        i == ((n * 99 + 99) \div 100) - 1
        p99Index == IF i >= n THEN n - 1 ELSE IF i < 0 THEN 0 ELSE i
    IN  IF T = {} THEN 0 ELSE SortedDurations(T)[p99Index + 1]

ErrorsOf(T, svc) == Cardinality({r \in T : r.service_name = svc /\ IsError(r.status)})
TotalOf(T, svc) == Cardinality({r \in T : r.service_name = svc})
ServicesOf(T) == {r.service_name : r \in T}

(***************************************************************************)
(* Storage: the queries of the snapshot.                                   *)
(***************************************************************************)
\* LIMIT 5 of the top failing services
TopN == 5

\* GROUP BY service_name HAVING error_count > 0 ORDER BY error_count DESC
RECURSIVE ByErrorsDesc(_, _)
ByErrorsDesc(T, S) ==
    IF S = {} THEN <<>>
    ELSE LET m == CHOOSE x \in S : \A y \in S : ErrorsOf(T, x) >= ErrorsOf(T, y)
         IN  <<m>> \o ByErrorsDesc(T, S \ {m})

\* stats.TopFailingServices: declared nil with stats, appended to per row scanned
TopFailingServices(T) ==
    LET all == ByErrorsDesc(T, {svc \in ServicesOf(T) : ErrorsOf(T, svc) > 0})
        rows == SubSeq(all, 1, IF Len(all) < TopN THEN Len(all) ELSE TopN)
        \* one element of stats.TopFailingServices
        ServiceError(svc) ==
            [service_name |-> svc,
             error_count |-> ErrorsOf(T, svc),
             total_count |-> TotalOf(T, svc),
             error_rate |-> IF TotalOf(T, svc) > 0
                            THEN Ratio(ErrorsOf(T, svc), TotalOf(T, svc)) ELSE ZeroFloat]
    IN  AppendAll(NilSlice, [i \in 1..Len(rows) |-> ServiceError(rows[i])])

\* GetDashboardStats(start, end, names), its queries succeeding
GetDashboardStats(names) ==
    LET T == Matching(names)
        total == Cardinality(T)
        errors == Cardinality({r \in T : IsError(r.status)})
    IN  [total_traces |-> total,
         total_logs |-> Cardinality(MatchingLogs(names)),
         total_errors |-> errors,
         error_rate |-> IF total > 0 THEN Ratio(errors * 100, total) ELSE ZeroFloat,
         avg_latency_ms |-> IF total > 0 THEN Ratio(SumDuration(T), total * 1000)
                            ELSE ZeroFloat,
         active_services |-> Cardinality(ServicesOf(T)),
         p99_latency |-> P99Latency(T),
         top_failing_services |-> TopFailingServices(T)]

RECURSIVE SortedMinutes(_)
SortedMinutes(S) ==
    IF S = {} THEN <<>>
    ELSE LET m == CHOOSE x \in S : \A y \in S : x <= y
         IN  <<m>> \o SortedMinutes(S \ {m})

\* time.Minute, in seconds
SecondsPerMinute == 60

\* the key of a row's bucket left as the timestamp itself
TruncateNone(ts) == ts

\* r.Timestamp.Truncate(time.Minute).Unix(), timestamps in seconds
Truncate(ts) == ts - (ts % SecondsPerMinute)

\* one bucket of GetTrafficMetrics: the rows whose truncated timestamp is ts
TrafficPoint(T, ts) ==
    [timestamp |-> ts,
     count |-> Cardinality({r \in T : Truncate(r.timestamp) = ts}),
     error_count |-> Cardinality({r \in T : Truncate(r.timestamp) = ts /\ IsError(r.status)})]

\* the buckets of the rows T: `var points []TrafficPoint`, one append per bucket,
\* then sort.Slice by timestamp
TrafficSeries(T) ==
    LET ms == SortedMinutes({Truncate(r.timestamp) : r \in T})
    IN  AppendAll(NilSlice, [i \in 1..Len(ms) |-> TrafficPoint(T, ms[i])])

\* GetTrafficMetrics(start, end, names) over the rows of the snapshot, whose
\* timestamps are whole minutes
GetTrafficMetrics(names) ==
    TrafficSeries({[timestamp |-> r.minute * SecondsPerMinute, status |-> r.status,
                    row |-> r] : r \in Matching(names)})

\* GetTrafficMetrics(start, end, names) over rows with timestamps in seconds:
\* WHERE timestamp BETWEEN start AND end [AND service_name IN names]
GetTrafficMetricsBetween(start, end, names) ==
    TrafficSeries({r \in db : /\ start <= r.timestamp /\ r.timestamp <= end
                              /\ (names = {} \/ r.service_name \in names)})

RECURSIVE SortedServices(_)
SortedServices(S) ==
    IF S = {} THEN <<>>
    ELSE LET m == CHOOSE x \in S : \A y \in S : SvcRank[x] <= SvcRank[y]
         IN  <<m>> \o SortedServices(S \ {m})

\* the traces that touch both services
TracesOfEdge(T, a, b) ==
    {t \in {x.trace_id : x \in T} :
                      /\ \E r \in T : r.trace_id = t /\ r.service_name = a
                      /\ \E r \in T : r.trace_id = t /\ r.service_name = b}

\* the pairs source < target of non-empty names met in one trace, in order
RECURSIVE SortedEdges(_)
SortedEdges(E) ==
    IF E = {} THEN <<>>
    ELSE LET m == CHOOSE x \in E : \A y \in E :
                     \/ SvcRank[x[1]] < SvcRank[y[1]]
                     \/ (x[1] = y[1] /\ SvcRank[x[2]] <= SvcRank[y[2]])
         IN  <<m>> \o SortedEdges(E \ {m})

\* svcNames of one trace: the keys of its inner map, after sort.Strings
SvcNames(T, t) ==
    SortedServices({r.service_name : r \in {x \in T : x.trace_id = t /\ x.service_name # ""}})

\* services[svc].errors of one trace
SvcErrors(T, t, svc) ==
    Cardinality({r \in T : r.trace_id = t /\ r.service_name = svc /\ IsError(r.status)})

\* the double loop taken over the whole square of indexes
PairIndexesSquare(n) == {p \in (1..n) \X (1..n) : p[1] # p[2]}

\* for i := 0; i < len(svcNames); i++ { for j := i + 1; j < len(svcNames); j++ {
PairIndexes(n) == {p \in (1..n) \X (1..n) : p[1] < p[2]}

\* one element <<t, i, j>> for each run of the body of the double loop
EdgeContribs(T) ==
    UNION {{<<t, p[1], p[2]>> : p \in PairIndexes(Len(SvcNames(T, t)))} :
              \* the keys of traceServiceMap: the traces with a row whose name is not ""
              t \in {r.trace_id : r \in {x \in T : x.service_name # ""}}}

\* key := edgeKey{source: svcNames[i], target: svcNames[j]}
EdgeKey(T, c) == <<SvcNames(T, c[1])[c[2]], SvcNames(T, c[1])[c[3]]>>

\* math.Round(float64(n) / float64(d) * 1000): the quotient in thousandths, the
\* halves rounded away from zero
RoundMilli(n, d) == (2000 * n + d) \div (2 * d)

\* one edge of the service map, from edgeAgg[e]: calls counts the runs of the loop
\* body for the key, errors those with an error in either service of the trace
\* (the average latency is left out)
ServiceMapEdge(T, e) ==
    LET cs == {c \in EdgeContribs(T) : EdgeKey(T, c) = e}
        bad == {c \in cs : SvcErrors(T, c[1], e[1]) > 0 \/ SvcErrors(T, c[1], e[2]) > 0}
    IN  [source |-> e[1], target |-> e[2],
         call_count |-> Cardinality(cs),
         error_rate |-> IF Cardinality(cs) > 0
                        THEN Ratio(RoundMilli(Cardinality(bad), Cardinality(cs)), 1000)
                        ELSE ZeroFloat]

\* GetServiceMapMetrics(start, end): nodes and edges are made with make(), the names
\* "" are skipped; the order of the elements (that of the rows and of the maps) is
\* not modelled, they come sorted
GetServiceMapMetrics ==
    LET T == {r \in db : r.minute \in Window}
        names == SortedServices(ServicesOf(T) \ {""})
        \* the keys of edgeAgg
        pairs == SortedEdges({EdgeKey(T, c) : c \in EdgeContribs(T)})
        \* one node of the service map (the rounding to two decimals is left out)
        ServiceMapNode(svc) ==
            [name |-> svc,
             total_traces |-> TotalOf(T, svc),
             error_count |-> ErrorsOf(T, svc),
             avg_latency_ms |-> Ratio(SumDuration({r \in T : r.service_name = svc}),
                                      TotalOf(T, svc) * 1000)]
    IN  [nodes |-> AppendAll(MakeSlice, [i \in 1..Len(names) |-> ServiceMapNode(names[i])]),
         edges |-> AppendAll(MakeSlice, [i \in 1..Len(pairs) |-> ServiceMapEdge(T, pairs[i])])]

\* validSorts: the sort fields a caller may name, and the column of each
validSorts ==
    [f \in {"timestamp", "duration", "service_name", "status", "trace_id"} |-> f]

\* the clause built from the caller's field, whatever it is
OrderClauseUnchecked(sortBy, orderBy) ==
    IF sortBy # ""
    THEN sortBy \o " " \o (IF orderBy = "desc" THEN "DESC" ELSE "ASC")
    ELSE "timestamp DESC"

\* orderClause of GetTracesFiltered(..., sortBy, orderBy)
OrderClause(sortBy, orderBy) ==
    IF sortBy # ""
    THEN LET direction == IF orderBy = "desc" THEN "DESC" ELSE "ASC"
         IN  IF sortBy \in DOMAIN validSorts
             THEN validSorts[sortBy] \o " " \o direction
             ELSE "timestamp DESC"
    ELSE "timestamp DESC"

\* json.Marshal writes [] for this slice: it is allocated and empty (a nil slice is
\* written null)
JsonEmptyArray(s) == ~s.isNil /\ s.items = <<>>

(***************************************************************************)
(* Storage: the state machine.                                             *)
(***************************************************************************)
NoResult == [fn |-> "none", names |-> {}, err |-> FALSE, value |-> <<>>]

\* a trace is stored (before the snapshot is computed)
InsertTrace(r) ==
    /\ result = NoResult
    /\ r \notin db
    /\ Cardinality(db) < MaxRows
    /\ db' = db \cup {r}
    /\ UNCHANGED <<logs, result>>
    /\ UNCHANGED <<dlqVars, hubVars, filterVars, snapVars, urlVars>>

\* a trace row is stored, for the service map
InsertMapTrace(r) ==
    /\ result = NoResult
    /\ r \notin db
    /\ Cardinality(db) < MaxMapRows
    /\ db' = db \cup {r}
    /\ UNCHANGED <<logs, result>>
    /\ UNCHANGED <<dlqVars, hubVars, filterVars, snapVars, urlVars>>

\* a trace row is stored, for the traffic series
InsertTimedTrace(r) ==
    /\ result = NoResult
    /\ r \notin db
    /\ Cardinality(db) < MaxTimedRows
    /\ db' = db \cup {r}
    /\ UNCHANGED <<logs, result>>
    /\ UNCHANGED <<dlqVars, hubVars, filterVars, snapVars, urlVars>>

\* a call of GetTrafficMetrics(start, end, names): a failing query returns (nil, err)
CallTrafficMetricsBetween(w, names) ==
    /\ result = NoResult
    /\ \/ result' = [fn |-> "GetTrafficMetrics", names |-> names, err |-> FALSE,
                     start |-> w[1], end |-> w[2],
                     value |-> GetTrafficMetricsBetween(w[1], w[2], names)]
       \/ result' = [fn |-> "GetTrafficMetrics", names |-> names, err |-> TRUE,
                     start |-> w[1], end |-> w[2], value |-> <<>>]
    /\ UNCHANGED <<db, logs>>
    /\ UNCHANGED <<dlqVars, hubVars, filterVars, snapVars, urlVars>>

\* a call of GetTracesFiltered(start, end, nil, "", "", limit, offset, sortBy, orderBy):
\* the count fails, or the clause is built and handed to Order(), and the fetch
\* fails or not; the rows fetched are not modelled
CallTracesFiltered(sortBy, orderBy) ==
    /\ result = NoResult
    /\ \/ result' = [fn |-> "GetTracesFiltered", names |-> {}, err |-> TRUE,
                     sortBy |-> sortBy, orderBy |-> orderBy, order |-> "",
                     total |-> 0]
       \/ \E fetchErr \in BOOLEAN :
             result' = [fn |-> "GetTracesFiltered", names |-> {}, err |-> fetchErr,
                        sortBy |-> sortBy, orderBy |-> orderBy,
                        order |-> OrderClause(sortBy, orderBy),
                        total |-> Cardinality(Matching({}))]
    /\ UNCHANGED <<db, logs>>
    /\ UNCHANGED <<dlqVars, hubVars, filterVars, snapVars, urlVars>>

\* a log is stored
InsertLog(l) ==
    /\ result = NoResult
    /\ l \notin logs
    /\ logs' = logs \cup {l}
    /\ UNCHANGED <<db, result>>
    /\ UNCHANGED <<dlqVars, hubVars, filterVars, snapVars, urlVars>>

\* a call of GetDashboardStats: a failing count query returns (nil, err)
CallDashboardStats(names) ==
    /\ result.fn # "GetDashboardStats"
    /\ \/ result' = [fn |-> "GetDashboardStats", names |-> names, err |-> FALSE,
                     value |-> GetDashboardStats(names)]
       \/ result' = [fn |-> "GetDashboardStats", names |-> names, err |-> TRUE,
                     value |-> <<>>]
    /\ UNCHANGED <<db, logs>>
    /\ UNCHANGED <<dlqVars, hubVars, filterVars, snapVars, urlVars>>

\* a call of GetTrafficMetrics: a failing query returns (nil, err)
CallTrafficMetrics(names) ==
    /\ result.fn # "GetTrafficMetrics"
    /\ \/ result' = [fn |-> "GetTrafficMetrics", names |-> names, err |-> FALSE,
                     value |-> GetTrafficMetrics(names)]
       \/ result' = [fn |-> "GetTrafficMetrics", names |-> names, err |-> TRUE,
                     value |-> <<>>]
    /\ UNCHANGED <<db, logs>>
    /\ UNCHANGED <<dlqVars, hubVars, filterVars, snapVars, urlVars>>

\* a call of GetServiceMapMetrics: a failing query returns (nil, err)
CallServiceMapMetrics ==
    /\ result.fn # "GetServiceMapMetrics"
    /\ \/ result' = [fn |-> "GetServiceMapMetrics", names |-> {}, err |-> FALSE,
                     value |-> GetServiceMapMetrics]
       \/ result' = [fn |-> "GetServiceMapMetrics", names |-> {}, err |-> TRUE,
                     value |-> <<>>]
    /\ UNCHANGED <<db, logs>>
    /\ UNCHANGED <<dlqVars, hubVars, filterVars, snapVars, urlVars>>

InitStats ==
    /\ db = {}
    /\ logs = {}
    /\ result = NoResult

NextStats ==
    \/ \E r \in TraceRows : InsertTrace(r)
    \/ \E l \in [service_name : {"a"}, minute : {0, 1}] : InsertLog(l)
    \/ \E names \in Filters : CallDashboardStats(names)
    \/ \E names \in Filters : CallTrafficMetrics(names)
    \/ CallServiceMapMetrics

(***************************************************************************)
(* The ingestion filter: a pure function of the configuration and the      *)
(* record.  Its code (internal/ingest) is not among the sources; it is     *)
(* modelled from the contract of the Filter Engine.                        *)
(***************************************************************************)
Severities == {"DEBUG", "INFO", "WARN", "ERROR", "FATAL"}

\* the severity scale
SeverityNumeric(sev) ==
    CASE sev = "DEBUG" -> 10
      [] sev = "INFO"  -> 20
      [] sev = "WARN"  -> 30
      [] sev = "ERROR" -> 40
      [] sev = "FATAL" -> 50

FilterServices == {"a", "b", "c"}

\* a log carries a severity, a span does not
NoSeverity == "-"

\* the allow list tried first, and a service on it admitted at once
ShouldIngestAllowFirst(cfg, rec) ==
    IF cfg.allowed_services # {} /\ rec.service_name \in cfg.allowed_services
    THEN "admit"
    ELSE IF rec.service_name \in cfg.excluded_services
    THEN "deny"
    ELSE IF cfg.allowed_services # {}
    THEN "allow-miss"
    ELSE IF rec.kind = "log"
            /\ SeverityNumeric(rec.severity) < SeverityNumeric(cfg.min_severity)
    THEN "severity"
    ELSE "admit"

\* rules (a) to (d), in this order; a denial carries its category
ShouldIngest(cfg, rec) ==
    IF rec.service_name \in cfg.excluded_services
    THEN "deny"
    ELSE IF cfg.allowed_services # {} /\ rec.service_name \notin cfg.allowed_services
    THEN "allow-miss"
    ELSE IF rec.kind = "log"
            /\ SeverityNumeric(rec.severity) < SeverityNumeric(cfg.min_severity)
    THEN "severity"
    ELSE "admit"

\* the receiver hands one record to the filter
FilterRecord(rec) ==
    /\ frec' = rec
    /\ fverdict' = ShouldIngest(fcfg, rec)
    /\ UNCHANGED fcfg
    /\ UNCHANGED <<dlqVars, hubVars, statVars, snapVars, urlVars>>

\* the defaults of Load
DefaultFilterConfig ==
    [min_severity |-> "INFO", allowed_services |-> {}, excluded_services |-> {}]

\* Load reads the environment, once, before any record arrives
LoadConfig(cfg) ==
    /\ fverdict = "none"
    /\ fcfg = DefaultFilterConfig
    /\ fcfg' = cfg
    /\ UNCHANGED <<frec, fverdict>>
    /\ UNCHANGED <<dlqVars, hubVars, statVars, snapVars, urlVars>>

InitFilter ==
    /\ fcfg = DefaultFilterConfig
    /\ frec = [kind |-> "none", service_name |-> "", severity |-> NoSeverity]
    /\ fverdict = "none"

NextFilter ==
    \* INGEST_MIN_SEVERITY, INGEST_ALLOWED_SERVICES (empty = any),
    \* INGEST_EXCLUDED_SERVICES
    \/ \E cfg \in [min_severity : Severities,
                    allowed_services : SUBSET {"a", "b"},
                    excluded_services : SUBSET {"a", "b"}] :
          LoadConfig(cfg)
    \/ \E rec \in [kind : {"log"}, service_name : FilterServices, severity : Severities]
                     \cup [kind : {"trace"}, service_name : FilterServices,
                           severity : {NoSeverity}] :
          FilterRecord(rec)

(***************************************************************************)
(* The snapshot hub's trigger: the debounced refresh.  Its code            *)
(* (realtime.EventHub) is not among the sources; it is modelled from the   *)
(* trigger model of the Snapshot Hub.                                      *)
(***************************************************************************)
NoRecompute == [at |-> -1, prev |-> -1, notified |-> 0]

\* a timer fires at the time it is set to: the time does not pass it
TimerDue == \E d \in timer : snow >= d

\* every notification sets the timer to fire at once
NotifyRefreshNow ==
    /\ timer' = {snow}
    /\ notified' = IF notified < MaxNotified THEN notified + 1 ELSE notified
    /\ UNCHANGED <<snow, lastSnapshot, recomputed>>
    /\ UNCHANGED <<dlqVars, hubVars, statVars, filterVars, urlVars>>

\* NotifyRefresh: schedules a recompute no sooner than T_debounce after the last
\* snapshot (and no later than T_debounce from now); a timer already set is left alone
NotifyRefresh ==
    /\ IF timer = {}
       THEN \E d \in (IF snow >= lastSnapshot + T_debounce THEN snow
                        ELSE lastSnapshot + T_debounce) .. (snow + T_debounce) :
               timer' = {d}
       ELSE timer' = timer
    /\ notified' = IF notified < MaxNotified THEN notified + 1 ELSE notified
    /\ UNCHANGED <<snow, lastSnapshot, recomputed>>
    /\ UNCHANGED <<dlqVars, hubVars, statVars, filterVars, urlVars>>

\* the timer fires: one snapshot is computed and pushed
Recompute ==
    /\ TimerDue
    /\ recomputed' = [at |-> snow, prev |-> lastSnapshot, notified |-> notified]
    /\ lastSnapshot' = snow
    /\ timer' = {}
    /\ notified' = 0
    /\ UNCHANGED snow
    /\ UNCHANGED <<dlqVars, hubVars, statVars, filterVars, urlVars>>

\* time passes
SnapTick ==
    /\ snow < MaxTime
    /\ ~TimerDue
    /\ snow' = snow + 1
    /\ UNCHANGED <<lastSnapshot, timer, notified, recomputed>>
    /\ UNCHANGED <<dlqVars, hubVars, statVars, filterVars, urlVars>>

\* no snapshot has been taken: the first one may be taken at once
InitSnap ==
    /\ snow = 0
    /\ lastSnapshot = 0 - T_debounce
    /\ timer = {}
    /\ notified = 0
    /\ recomputed = NoRecompute

NextSnap ==
    \/ NotifyRefresh
    \/ Recompute
    \/ SnapTick

(***************************************************************************)
(* Web client: the time range kept in the URL.                             *)
(***************************************************************************)
\* a search param or a hook's value: {} when absent (null), {v} when it is v
Absent == {}

\* the keys of the search params: those of useTimeRange and one of another filter
ParamKeys == {"range", "from", "to", "service"}

\* RANGE_MINUTES, the minutes of the presets
RANGE_MINUTES ==
    ("5m" :> 5) @@ ("15m" :> 15) @@ ("1h" :> 60) @@ ("6h" :> 360) @@ ("24h" :> 1440)

\* names RANGE_MINUTES answers with a function or an object, not a number: an object
\* literal inherits them from Object.prototype
ObjectPrototypeKeys == {"constructor", "toString", "valueOf", "hasOwnProperty"}

\* a JavaScript string used as a condition: null and '' are falsy
Truthy(v) == v # Absent /\ v # {""}

\* setAndPersist(newValue) of useFilterParam(key, null): the params after setParams.
\* URLSearchParams writes and reads back every value unchanged
SetAndPersist(p, key, newValue) ==
    IF Truthy(newValue) /\ newValue # Absent
    THEN [p EXCEPT ![key] = newValue]
    ELSE [p EXCEPT ![key] = Absent]

\* onUrlChange of the three hooks of useTimeRange, run by the event of setParams:
\* getParams().get(key), the hook's defaultValue being null
OnUrlChange(p) ==
    /\ rangeParam' = IF mounted THEN p["range"] ELSE rangeParam
    /\ fromParam' = IF mounted THEN p["from"] ELSE fromParam
    /\ toParam' = IF mounted THEN p["to"] ELSE toParam

\* timeRange of useTimeRange, from the values of the three hooks; "RangeError" when
\* the computation throws
TimeRange ==
    LET \* `RANGE_MINUTES[name]` used as a condition: a preset's minutes (none is 0),
        \* or an inherited member; undefined for every other name
        RangeMinutesTruthy(name) ==
            IF name \in DOMAIN RANGE_MINUTES THEN RANGE_MINUTES[name] # 0
            ELSE name \in ObjectPrototypeKeys
        \* getRangeTimes(range) throws: `RANGE_MINUTES[range] || 5` is 5 for an unknown
        \* name, but an inherited member is kept, the start is then an invalid Date
        \* and its toISOString() throws a RangeError
        GetRangeTimesThrows(range) ==
            range \notin DOMAIN RANGE_MINUTES /\ range \in ObjectPrototypeKeys
    IN
    IF Truthy(rangeParam) /\ (\E name \in rangeParam : RangeMinutesTruthy(name))
    THEN LET name == CHOOSE n \in rangeParam : TRUE
         IN  IF GetRangeTimesThrows(name) THEN "RangeError" ELSE name
    ELSE IF Truthy(fromParam) /\ Truthy(toParam)
         THEN "custom"
         ELSE defaultRange

NoSet == [op |-> "none", args |-> <<>>, before |-> [k \in ParamKeys |-> Absent]]

\* a page using useTimeRange(d) is opened at a URL: the hooks start from its params
OpenUrl(u, d) ==
    /\ params' = u
    /\ rangeParam' = u["range"]
    /\ fromParam' = u["from"]
    /\ toParam' = u["to"]
    /\ defaultRange' = d
    /\ mounted' = TRUE
    /\ lastSet' = NoSet
    /\ UNCHANGED <<dlqVars, hubVars, statVars, filterVars, snapVars>>

\* setTimeRange(val), called by the selector with one of its presets
SetTimeRange(val) ==
    /\ mounted
    /\ LET p1 == SetAndPersist(params, "range", {val})
           p2 == SetAndPersist(p1, "from", Absent)
           p3 == SetAndPersist(p2, "to", Absent)
       IN  /\ params' = p3
           /\ OnUrlChange(p3)
           /\ lastSet' = [op |-> "setTimeRange", args |-> <<val>>, before |-> params]
    /\ UNCHANGED <<defaultRange, mounted>>
    /\ UNCHANGED <<dlqVars, hubVars, statVars, filterVars, snapVars>>

\* setCustomRange(s, e)
SetCustomRange(s, e) ==
    /\ mounted
    /\ LET p1 == SetAndPersist(params, "range", Absent)
           p2 == SetAndPersist(p1, "from", {s})
           p3 == SetAndPersist(p2, "to", {e})
       IN  /\ params' = p3
           /\ OnUrlChange(p3)
           /\ lastSet' = [op |-> "setCustomRange", args |-> <<s, e>>, before |-> params]
    /\ UNCHANGED <<defaultRange, mounted>>
    /\ UNCHANGED <<dlqVars, hubVars, statVars, filterVars, snapVars>>

\* the setter of useFilterParam('service', null), of the same page
SetService(v) ==
    /\ mounted
    /\ LET p1 == SetAndPersist(params, "service", v)
       IN  /\ params' = p1
           /\ OnUrlChange(p1)
    /\ lastSet' = NoSet
    /\ UNCHANGED <<defaultRange, mounted>>
    /\ UNCHANGED <<dlqVars, hubVars, statVars, filterVars, snapVars>>

\* no page is open
InitUrl ==
    /\ params = [k \in ParamKeys |-> Absent]
    /\ rangeParam = Absent
    /\ fromParam = Absent
    /\ toParam = Absent
    /\ defaultRange = "5m"
    /\ mounted = FALSE
    /\ lastSet = NoSet

NextUrl ==
    \* the values a page is opened with: presets, an empty value, a range that is no
    \* preset, an inherited name; two instants
    \/ \E r \in {Absent, {""}, {"15m"}, {"1h"}, {"2h"}, {"constructor"}},
          f \in {Absent, {""}, {"T1"}, {"T2"}}, t \in {Absent, {""}, {"T1"}, {"T2"}},
          sv \in {Absent, {"a"}}, d \in {"5m", "15m"} :
          OpenUrl([k \in ParamKeys |->
                      IF k = "range" THEN r ELSE IF k = "from" THEN f
                      ELSE IF k = "to" THEN t ELSE sv], d)
    \/ \E val \in DOMAIN RANGE_MINUTES : SetTimeRange(val)
    \/ \E s \in {"T1", "T2"}, e \in {"T1", "T2"} : SetCustomRange(s, e)
    \/ \E v \in {Absent, {"a"}} : SetService(v)

(***************************************************************************)
(* The state machines.                                                     *)
(***************************************************************************)
\* NewHub, and `go hub.Run()` not yet scheduled
InitHub ==
    /\ hpc = "init"
    /\ hwg = 0
    /\ hstopCh = "open"
    /\ hstopPc = "idle"
    /\ clients = {}
    /\ broadcast = <<>>
    /\ buffer = <<>>
    /\ send = [c \in Clients |-> <<>>]
    /\ sendClosed = [c \in Clients |-> FALSE]
    /\ closes = [c \in Clients |-> 0]
    /\ stopEntry = 0
    /\ hdl = [c \in Clients |-> "none"]
    /\ wr = [c \in Clients |-> "none"]
    /\ wmsg = [c \in Clients |-> <<>>]
    /\ conn = [c \in Clients |-> "none"]
    /\ reported = -1
    /\ nextEntry = 1
    /\ delivered = [c \in Clients |-> <<>>]
    /\ flushLog = <<>>

NextHub ==
    \/ RunStart
    \/ RunStopCase
    \/ \E c \in Clients : RunRegister(c)
    \/ \E c \in Clients : RunUnregister(c)
    \/ RunBroadcast
    \/ RunTick
    \/ BroadcastCall
    \/ HubStopClose
    \/ HubStopReturn
    \/ \E c \in Clients : Accept(c)
    \/ \E c \in Clients : ReadError(c)
    \/ \E c \in Clients : WriterRecv(c)
    \/ \E c \in Clients : WriterWrite(c)
    \/ \E c \in Clients : WriterClose(c)

Init == InitDLQ /\ InitHub /\ InitStats /\ InitFilter /\ InitSnap /\ InitUrl

SpecDLQ == Init /\ [][NextDLQ]_vars

SpecHub == Init /\ [][NextHub]_vars

SpecStats == Init /\ [][NextStats]_vars

\* the service map over tables of more rows
NextMap ==
    \* the rows stored: three traces, all in the window, of equal duration
    \/ \E r \in [trace_id : {"t1", "t2", "t3"}, service_name : Services,
                  status : Statuses, duration : {1000}, minute : Window] :
          InsertMapTrace(r)
    \/ CallServiceMapMetrics

SpecMap == Init /\ [][NextMap]_vars

\* the trace list
NextTraces ==
    \* the rows stored: one service, the window, one duration
    \/ \E r \in {x \in TraceRows :
                    x.service_name = "a" /\ x.duration = 1000 /\ x.minute \in Window} :
          InsertTrace(r)
    \* the sortBy and orderBy arguments of the callers: the fields of the whitelist,
    \* no field, other columns, other spellings, text that goes on after the field
    \/ \E sortBy \in {"", "timestamp", "duration", "service_name", "status", "trace_id",
                       "TIMESTAMP", "span_count", "timestamp DESC",
                       "timestamp; DROP TABLE traces"},
          orderBy \in {"", "asc", "desc", "DESC", "desc; DROP TABLE traces"} :
          CallTracesFiltered(sortBy, orderBy)

SpecTraces == Init /\ [][NextTraces]_vars

\* the traffic series over rows with timestamps in seconds
NextTraffic ==
    \* the rows stored, their timestamps in seconds
    \/ \E r \in [trace_id : TraceIds, service_name : {"a", "b"}, status : Statuses,
                  timestamp : {59, 60, 119, 120}] :
          InsertTimedTrace(r)
    \* the windows <<start, end>> asked for
    \/ \E w \in {<<60, 119>>, <<0, 120>>}, names \in Filters :
          CallTrafficMetricsBetween(w, names)

SpecTraffic == Init /\ [][NextTraffic]_vars

SpecFilter == Init /\ [][NextFilter]_vars

SpecSnap == Init /\ [][NextSnap]_vars

SpecUrl == Init /\ [][NextUrl]_vars

\* The scheduler runs every goroutine that can take a step, and a select whose case
\* stays ready takes it: the hub loop and the writers are weakly fair.  Callers of
\* Broadcast and Stop, peers and the network are not.
FairSpecHub ==
    /\ SpecHub
    /\ WF_vars(RunStart)
    /\ WF_vars(RunStopCase)
    /\ WF_vars(RunBroadcast)
    /\ WF_vars(RunTick)
    /\ WF_vars(HubStopReturn)
    /\ \A c \in Clients :
          /\ WF_vars(RunRegister(c))
          /\ WF_vars(RunUnregister(c))
          /\ WF_vars(WriterRecv(c))
          /\ WF_vars(WriterWrite(c))
          /\ WF_vars(WriterClose(c))

(***************************************************************************)
(* DLQ: properties.                                                        *)
(***************************************************************************)
\* the range loop of processFiles has visited every entry of the listing
CycleDone == wpc = "loop" /\ widx > Len(wentries)

\* the iterations of this cycle that handled the file named n
Iterations(n) == {i \in 1..Len(wlog) : wentries[i].name = n}

FsErrors == {"readerr", "rmerr"}

\* a batch file disappears only in the worker's removal step, after replayFn
\* returned nil for the data the worker read from it in this cycle
RemovedOnlyAfterSuccess ==
    \A n \in JsonNames :
        (files[n].exists /\ ~files'[n].exists) =>
            /\ wpc = "remove"
            /\ werr = "nil"
            /\ wentries[widx].name = n

\* C1 as stated: a DLQ file is removed if and only if its replay call returned
\* success; every file replayed with success is gone when the worker moves on.
C1_Claim ==
    [][ /\ RemovedOnlyAfterSuccess
        /\ (wpc = "replay" /\ wpc' # "replay" /\ werr' = "nil") => wpc' = "remove"
        /\ (wpc = "remove" /\ wpc' # "remove") => ~files'[wentries[widx].name].exists
      ]_vars

\* C1, amended: a DLQ file is removed only by the worker and only after replayFn
\* returned success for it in the same cycle; and every file whose replay call
\* returned success is removed in that cycle unless os.Remove fails, in which
\* case the file stays.
C1_RemovedIffReplayed ==
    [][ /\ RemovedOnlyAfterSuccess
        /\ (wpc = "replay" /\ wpc' # "replay" /\ werr' = "nil") => wpc' = "remove"
        /\ (wpc = "replay" /\ wpc' = "remove") => werr' = "nil"
        /\ (wpc = "remove" /\ wpc' # "remove") =>
              \/ ~files'[wentries[widx].name].exists
              \/ (wlog'[Len(wlog')] = "rmerr" /\ files' = files)
      ]_vars

\* a file has just been replayed with success and removed
C1_Witness ==
    /\ wpc = "loop"
    /\ wlog # <<>>
    /\ wlog[Len(wlog)] = "removed"
    /\ ~files[wentries[Len(wlog)].name].exists

C3_Claim ==
    (CycleDone /\ cycleRecovered /\ ~enqSince) => Size = 0

\* C3, amended: once the store has recovered and nothing more is enqueued, the next
\* replay cycle in which the listing, every read and every removal succeed
\* replays and removes every .json file, and Size() is 0 at its end.
C3_RecoveredCycleEmptiesDLQ ==
    (CycleDone /\ cycleRecovered /\ ~enqSince /\ \A i \in 1..Len(wlog) : wlog[i] \notin FsErrors)
        => /\ Size = 0
           /\ \A i \in 1..Len(wentries) :
                 wlog[i] = IF IsJsonFile(wentries[i]) THEN "removed" ELSE "skip"

\* a cycle started after the recovery has replayed and removed two files
C3_Witness ==
    /\ CycleDone
    /\ cycleRecovered
    /\ ~enqSince
    /\ Cardinality({i \in 1..Len(wlog) : wlog[i] = "removed"}) >= 2
    /\ \A i \in 1..Len(wlog) : wlog[i] \notin FsErrors
    /\ Size = 0

\* C4 as stated: serialized by the mutex, every Enqueue call that writes creates a
\* file of its own: os.WriteFile never opens a file that is already there.
C4_Claim ==
    [][ \A c \in Callers :
          (enq[c].pc = "open" /\ enq'[c].pc = "write") => ~files[enq[c].name].exists
      ]_vars

(***************************************************************************)
(* Hub: properties.                                                        *)
(***************************************************************************)
\* this step is a flush that sent a batch to the clients
FlushStep ==
    /\ Len(flushLog') = Len(flushLog) + 1
    /\ flushLog'[Len(flushLog')].marshalled

\* the batch a flush step sent
FlushedBatch == flushLog'[Len(flushLog')].batch

\* the batches the hub queued for c, in flush order
SentTo(c) ==
    LET sel == SelectSeq(flushLog, LAMBDA r : c \in r.to)
    IN  [i \in 1..Len(sel) |-> sel[i].batch]

\* the message c's writer took from the channel and has not written yet
InFlight(c) == IF wr[c] = "write" THEN <<wmsg[c]>> ELSE <<>>

\* every message there is: queued, being written, written
Messages ==
    UNION {{send[c][i] : i \in 1..Len(send[c])} : c \in Clients}
    \cup UNION {{delivered[c][i] : i \in 1..Len(delivered[c])} : c \in Clients}
    \cup UNION {{InFlight(c)[i] : i \in 1..Len(InFlight(c))} : c \in Clients}

\* the entries some Broadcast call has dropped
Dropped ==
    {e \in 1..(nextEntry - 1) :
        /\ \A i \in 1..Len(broadcast) : broadcast[i] # e
        /\ \A i \in 1..Len(buffer) : buffer[i] # e
        /\ \A i \in 1..Len(flushLog) :
              \A j \in 1..Len(flushLog[i].batch) : flushLog[i].batch[j] # e}

\* C5: Broadcast never blocks its caller: in every state of the hub the call can
\* complete, and it appends the entry to the channel when there is room and
\* changes nothing when the channel is full.
C5_BroadcastNeverBlocks ==
    /\ [](nextEntry <= MaxEntries => ENABLED BroadcastCall)
    /\ [][ nextEntry' # nextEntry =>
             /\ broadcast' = IF Len(broadcast) < BroadcastCap
                             THEN Append(broadcast, nextEntry) ELSE broadcast
             /\ UNCHANGED <<hpc, hwg, hstopCh, hstopPc, clients, buffer, send,
                            sendClosed, clientVars, reported, flushLog>>
         ]_vars

\* an entry was dropped on a full channel after the hub loop had exited
C5_Witness ==
    /\ hpc = "exited"
    /\ Len(broadcast) = BroadcastCap
    /\ Dropped # {}

\* C6: a flush removes exactly the clients whose channel is full, closes their
\* channels and sends them nothing; it never waits: the hub loop can always take
\* its tick.
C6_SlowClientShed ==
    /\ [](hpc = "select" => ENABLED RunTick)
    /\ [][ FlushStep =>
             \A c \in Clients :
                IF c \in clients /\ Len(send[c]) >= SendCap
                THEN c \notin clients' /\ sendClosed'[c] /\ send'[c] = send[c]
                ELSE /\ (c \in clients') = (c \in clients)
                     /\ sendClosed'[c] = sendClosed[c]
         ]_vars

\* a flush removed c1, whose reader and writer have noticed nothing yet
C6_Witness ==
    /\ "c1" \notin clients
    /\ sendClosed["c1"]
    /\ Len(send["c1"]) = SendCap
    /\ hdl["c1"] = "read"
    /\ wr["c1"] = "recv"
    /\ "c2" \in clients

C8_Claim ==
    \A i \in 1..Len(flushLog) : flushLog[i].cause \in {"size", "tick"}

\* C8, amended: the hub flushes a non-empty buffer if and only if its length
\* reaches maxBufferSize, the flush ticker fires, or the hub is stopped: a size
\* flush takes exactly maxBufferSize entries and leaves none waiting, a tick
\* always empties the buffer, and the stop case flushes what is left.
C8_FlushTriggers ==
    /\ \A i \in 1..Len(flushLog) :
          /\ flushLog[i].cause \in {"size", "tick", "stop"}
          /\ flushLog[i].cause = "size" <=> Len(flushLog[i].batch) = maxBufferSize
    /\ Len(buffer) < maxBufferSize
    /\ hpc = "select" => ENABLED RunTick /\ ~ENABLED (RunTick /\ buffer' # <<>>)
    /\ hpc = "exited" => buffer = <<>>

\* the buffer was flushed once by size, once by the ticker and once by the stop
C8_Witness ==
    /\ \E i \in 1..Len(flushLog) : flushLog[i].cause = "size"
    /\ \E i \in 1..Len(flushLog) : flushLog[i].cause = "tick"
    /\ hpc = "exited"

\* C9: every message carries between 1 and maxBufferSize entries, a flush of an
\* empty buffer changes nothing, and the buffer holds fewer than maxBufferSize
\* entries whenever the hub loop waits in its select.
C9_MessageSize ==
    /\ \A m \in Messages : Len(m) >= 1 /\ Len(m) <= maxBufferSize
    /\ \A i \in 1..Len(flushLog) :
          Len(flushLog[i].batch) >= 1 /\ Len(flushLog[i].batch) <= maxBufferSize
    /\ hpc = "select" => Len(buffer) < maxBufferSize
    /\ (hpc = "select" /\ buffer = <<>>) => ~ENABLED (RunTick /\ hubVars' # hubVars)

\* a client has been written a full batch and a batch of one entry
C9_Witness ==
    \E c \in Clients :
        /\ \E i \in 1..Len(delivered[c]) : Len(delivered[c][i]) = maxBufferSize
        /\ \E i \in 1..Len(delivered[c]) : Len(delivered[c][i]) = 1
        /\ hpc = "select"
        /\ buffer = <<>>

\* C10 as stated, for the read error: once the reader of a client has met a read
\* error, the client is removed from the set (unless the hub is stopped first).
C10_Claim ==
    \A c \in Clients :
        (hdl[c] = "returned" /\ c \in clients) ~> (c \notin clients \/ hstopCh = "closed")

\* the hub loop leaves its select for good in this step
RunExits == hpc = "select" /\ hpc' = "exited"

\* C11: the hub loop exits only through its stop case, which flushes first: a
\* non-empty buffer is taken as one batch and, once marshalled, queued for every
\* client in the set whose channel has room; the buffer is empty when the loop
\* has exited.
C11_StopFlushesBuffer ==
    /\ [](hpc = "exited" => buffer = <<>>)
    /\ [][ RunExits =>
             /\ hstopCh = "closed"
             /\ buffer' = <<>>
             /\ buffer # <<>> =>
                   /\ Len(flushLog') = Len(flushLog) + 1
                   /\ FlushedBatch = buffer
                   /\ flushLog'[Len(flushLog')].cause = "stop"
                   /\ FlushStep =>
                         \A c \in clients :
                            Len(send[c]) < SendCap => send'[c] = Append(send[c], buffer)
         ]_vars

\* the loop has exited and a client has been written the batch flushed by the stop
C11_Witness ==
    /\ hpc = "exited"
    /\ flushLog # <<>>
    /\ flushLog[Len(flushLog)].cause = "stop"
    /\ flushLog[Len(flushLog)].marshalled
    /\ \E c \in flushLog[Len(flushLog)].to :
          /\ delivered[c] # <<>>
          /\ delivered[c][Len(delivered[c])] = flushLog[Len(flushLog)].batch

\* C12 as stated: once Stop has returned, every client still in the set has its
\* connection closed and its writer goroutine ends.
C12_Claim ==
    \A c \in Clients :
        (hstopPc = "returned" /\ c \in clients) ~> (conn[c] = "closed" /\ wr[c] = "done")

\* C13 as stated: once Stop has returned, the Run loop has terminated.
C13_Claim ==
    hstopPc = "returned" => hpc = "exited"

\* C16: the count last passed to onConnectionChange is the size of the client set
\* (nothing is reported before the first change); every step that adds or removes
\* a client reports the new size, and the unregister of a client that is not in
\* the set changes nothing of the hub.
C16_ReportedCount ==
    /\ [](\/ reported = Cardinality(clients)
          \/ (reported = -1 /\ clients = {}))
    /\ [][ /\ clients' # clients => reported' = Cardinality(clients')
           /\ \A c \in Clients :
                 (wr[c] = "unregister" /\ wr'[c] = "close" /\ c \notin clients) =>
                     UNCHANGED <<hubCore, send, sendClosed>>
         ]_vars

\* of two connected clients c1 was shed as slow, its writer has gone through the
\* unregister of an absent client, and the count reported is 1
C16_Witness ==
    /\ hpc = "select"
    /\ clients = {"c2"}
    /\ reported = 1
    /\ sendClosed["c1"]
    /\ wr["c1"] = "close"
    /\ \E i \in 1..Len(flushLog) : flushLog[i].to = {"c2"}

(***************************************************************************)
(* DLQ: shutdown, foreign entries, order, batches.                         *)
(***************************************************************************)
\* C14: the worker leaves only from its select, never from inside processFiles, so
\* a cycle in progress when Stop is called runs to its end; Stop returns only
\* after the worker has exited, and an exited worker calls replayFn no more and
\* removes no file.
C14_StopWaitsForCycle ==
    /\ [](stopPc = "returned" => wpc = "exited")
    /\ [][ /\ (wpc # "exited" /\ wpc' = "exited") => (wpc = "select" /\ stopCh = "closed")
           /\ wpc = "exited" =>
                 /\ UNCHANGED workerVars
                 /\ \A n \in JsonNames : files[n].exists => files'[n].exists
         ]_vars

\* Stop was called during a replay cycle and has returned
C14_Witness ==
    /\ stopPc = "returned"
    /\ stopAt = "cycle"
    /\ wpc = "exited"

\* C15 as stated: once Stop has returned nothing writes to the DLQ directory.
C15_Claim ==
    [][ stopPc = "returned" => files' = files ]_vars

\* C17 as stated: entries that are directories or not *.json are never read,
\* replayed, removed or counted, and Size() returns exactly the number of
\* non-directory .json entries, whatever its os.ReadDir returns.
C17_Claim ==
    /\ foreign = ForeignEntries
    /\ wpc \in {"replay", "remove"} => IsJsonFile(wentries[widx])
    /\ \A ok \in BOOLEAN : SizeCall(ok) = Cardinality(Existing)

\* C17, amended: entries that are directories or not *.json stay in the directory
\* and are skipped by every iteration of the worker; Size() returns exactly the
\* number of non-directory .json entries when it can read the directory, and 0
\* when it cannot.
C17_ForeignEntriesIgnored ==
    /\ foreign = ForeignEntries
    /\ wpc \in {"replay", "remove"} => IsJsonFile(wentries[widx])
    /\ \A i \in 1..Len(wlog) : ~IsJsonFile(wentries[i]) <=> wlog[i] = "skip"
    /\ SizeCall(TRUE) = Cardinality(Existing)
    /\ SizeCall(FALSE) = 0

\* a cycle has skipped the directory and the text file and replayed a batch file,
\* and Size() counts the one batch file that is left
C17_Witness ==
    /\ CycleDone
    /\ Cardinality({i \in 1..Len(wlog) : wlog[i] = "skip"}) = 2
    /\ \E i \in 1..Len(wlog) : wlog[i] = "removed"
    /\ SizeCall(TRUE) = 1

\* the positions of the batch files in this cycle's listing
JsonPositions(entries) == {i \in 1..Len(entries) : IsJsonFile(entries[i])}

C19_Claim ==
    [][ \A n \in JsonNames :
           (files[n].exists /\ files[n].data \in MarshalledBatches) =>
               \/ files'[n] = files[n]
               \/ /\ ~files'[n].exists
                  /\ wdata = files[n].data
                  /\ werr = "nil"
      ]_vars

\* the records of the batches Enqueue accepts
Records == UNION {{b[i] : i \in 1..Len(b)} : b \in {x \in Batches : MarshalOK(x)}}

\* record r is in a file of the directory f that holds a whole batch
HeldIn(f, r) ==
    \E n \in JsonNames :
        /\ f[n].exists
        /\ f[n].data \in MarshalledBatches
        /\ \E i \in 1..Len(f[n].data) : f[n].data[i] = r

\* C22 as stated: a record that a successful Enqueue has put in a file of the
\* directory stays in a file until replayFn has stored the batch that holds it.
C22_Claim ==
    [][ \A r \in Records :
           HeldIn(files, r) =>
               \/ HeldIn(files', r)
               \/ /\ wpc = "remove"
                  /\ werr = "nil"
                  /\ \E i \in 1..Len(wdata) : wdata[i] = r
      ]_vars

\* the names the loop of this cycle has still to process
StillToProcess ==
    IF wpc \in {"loop", "replay", "remove"}
    THEN {wentries[i].name : i \in widx..Len(wentries)}
    ELSE {}

\* C30 as stated: replayFn is called with the whole content written by a finished
\* Enqueue call only; the worker reads no file that an Enqueue in progress is
\* writing; and an Enqueue that runs during a cycle writes no file that this
\* cycle goes on to replay or remove.
C30_Claim ==
    /\ [](wpc = "replay" => wdata \in MarshalledBatches)
    /\ [][ (wpc = "loop" /\ wpc' = "replay") =>
              \A c \in Callers :
                 ~(enq[c].pc = "write" /\ enq[c].name = wentries[widx].name)
         ]_vars
    /\ [][ \A c \in Callers :
              (enq[c].pc = "open" /\ enq'[c].pc = "write") =>
                  enq[c].name \notin StillToProcess
         ]_vars

\* C31: a read error or a failed replay ends the iteration, not the cycle: the
\* loop goes on with the next entry, processFiles returns only when every entry
\* of the listing has had its iteration, and every .json file of the listing has
\* then been attempted, whatever happened to the files before it.
C31_PoisonFileDoesNotStopCycle ==
    /\ [](wpc \in {"loop", "replay", "remove"} =>
            /\ Len(wlog) = widx - 1
            /\ \A i \in 1..Len(wlog) :
                  wlog[i] \in (IF IsJsonFile(wentries[i])
                             THEN {"readerr", "fail", "removed", "rmerr"}
                             ELSE {"skip"}))
    /\ [](CycleDone => Len(wlog) = Len(wentries))
    /\ [][ (wpc \in {"loop", "replay", "remove"} /\ wpc' = "select") => CycleDone ]_vars
    /\ [][ (wpc \in {"loop", "replay", "remove"} /\ Len(wlog') > Len(wlog)
                    /\ wlog'[Len(wlog')] \in {"readerr", "fail"}) =>
              (wpc' = "loop" /\ widx' = widx + 1 /\ files' = files)
         ]_vars

\* in one cycle the replay of a file failed and a later file was replayed and removed
C31_Witness ==
    /\ CycleDone
    /\ \E i, j \in 1..Len(wlog) :
          /\ i < j
          /\ wlog[i] \in {"readerr", "fail"}
          /\ wlog[j] = "removed"

\* C32: once a replayed file has been removed its content is not handed to
\* replayFn again: the removal follows a successful replay and leaves no file of
\* that name; replayFn gets only what the worker has just read from a file that
\* is in the directory; a listing names only files that are there, each once; and
\* a file comes into being only by an Enqueue call.  Only a failed removal leaves
\* a replayed file to be replayed again.
C32_NoReplayAfterRemoval ==
    /\ [][ (Len(wlog') = Len(wlog) + 1 /\ wlog'[Len(wlog')] = "removed") =>
              (werr = "nil" /\ ~files'[wentries[widx].name].exists) ]_vars
    /\ [][ (Len(wlog') = Len(wlog) + 1 /\ wlog'[Len(wlog')] = "rmerr") => (werr = "nil" /\ files' = files) ]_vars
    /\ [][ (wpc = "loop" /\ wpc' = "replay") =>
              /\ files[wentries[widx].name].exists
              /\ wdata' = files[wentries[widx].name].data ]_vars
    /\ [][ (wpc = "list" /\ wpc' = "loop") =>
              \A i \in 1..Len(wentries') :
                 IsJsonFile(wentries'[i]) => files[wentries'[i].name].exists ]_vars
    /\ [][ \A n \in JsonNames :
              (~files[n].exists /\ files'[n].exists) =>
                 \E c \in Callers : enq[c].pc = "open" /\ enq[c].name = n ]_vars
    /\ [](\A i, j \in 1..Len(wentries) :
             (i # j /\ IsJsonFile(wentries[i])) => wentries[i].name # wentries[j].name)

\* in one cycle a replayed file was removed and is gone, and the removal of
\* another replayed file failed: that one is still there for the next cycle
C32_Witness ==
    /\ wpc \in {"loop", "replay", "remove"}
    /\ \E i, j \in 1..Len(wlog) :
          /\ wlog[i] = "removed"
          /\ ~files[wentries[i].name].exists
          /\ wlog[j] = "rmerr"
          /\ files[wentries[j].name].exists

\* C33: the one replay worker takes a tick only in its select: while it lists,
\* reads, replays or removes no tick starts a cycle; a cycle starts from the
\* select with the state of the cycle before it cleared; and while replayFn runs
\* the worker does nothing else, so a second call starts only after the first
\* has returned.
C33_CyclesDoNotOverlap ==
    /\ []((wpc \in {"loop", "replay", "remove"} \/ wpc = "list") => ~ENABLED WorkerTick)
    /\ [][ (wpc' = "list" /\ wpc # "list") =>
              (wpc = "select" /\ wentries = <<>> /\ wlog = <<>> /\ werr = "none") ]_vars
    /\ [][ (wpc = "list" /\ wpc' # "list") => wpc' \in {"loop", "select"} ]_vars
    /\ [][ wpc = "replay" =>
              /\ wentries' = wentries
              /\ \/ UNCHANGED <<wpc, widx, wdata, wlog>>
                 \/ (wpc' = "remove" /\ werr' = "nil" /\ UNCHANGED <<widx, wdata, wlog>>)
                 \/ (wpc' = "loop" /\ widx' = widx + 1 /\ (Len(wlog') = Len(wlog) + 1 /\ wlog'[Len(wlog')] = "fail")) ]_vars

\* replayFn runs for a file of a cycle after its call for an earlier file of the
\* cycle has returned with an error
C33_Witness ==
    /\ wpc = "replay"
    /\ \E i \in 1..Len(wlog) : wlog[i] = "fail"

\* C34: the worker holds d.mu within its listing and its removal only: between
\* its steps the mutex is free or held by a caller of Enqueue.  While the worker
\* reads or runs replayFn, a caller can take the free mutex, and a call that has
\* it can open and write its file: nothing of Enqueue (or of Size, which needs
\* the mutex alone) waits for replayFn to return.
C34_ReplayDoesNotHoldMutex ==
    /\ mu \in Callers \cup {"free"}
    /\ wpc \in {"loop", "replay"} =>
          \A c \in Callers :
             /\ (mu = "free" /\ enq[c].pc = "idle") =>
                   \A b \in Batches : ENABLED EnqueueLock(c, b)
             /\ enq[c].pc = "open" => ENABLED EnqueueOpen(c)
             /\ enq[c].pc = "write" => ENABLED EnqueueWrite(c)

\* while replayFn runs, an Enqueue call holds the mutex and writes a file that
\* was not there when the cycle listed the directory
C34_Witness ==
    /\ wpc = "replay"
    /\ \E c \in Callers :
          /\ mu = c
          /\ enq[c].pc = "write"
          /\ \A i \in 1..Len(wentries) : wentries[i].name # enq[c].name

(***************************************************************************)
(* Storage: properties.                                                    *)
(***************************************************************************)
\* the last query succeeded and found no trace and no log in its window
ZeroData ==
    /\ result.fn # "none"
    /\ ~result.err
    /\ Matching(result.names) = {}
    /\ MatchingLogs(result.names) = {}

\* C20 as stated: with no trace and no log in the window the aggregates are zero
\* and the top failing services, the traffic series and the nodes and edges of
\* the service map are empty arrays, not null.
C20_Claim ==
    ZeroData =>
        /\ result.fn = "GetDashboardStats" =>
              /\ result.value.total_traces = 0
              /\ result.value.total_logs = 0
              /\ result.value.total_errors = 0
              /\ result.value.active_services = 0
              /\ result.value.error_rate = ZeroFloat
              /\ result.value.avg_latency_ms = ZeroFloat
              /\ result.value.p99_latency = 0
              /\ JsonEmptyArray(result.value.top_failing_services)
        /\ result.fn = "GetTrafficMetrics" => JsonEmptyArray(result.value)
        /\ result.fn = "GetServiceMapMetrics" =>
              /\ JsonEmptyArray(result.value.nodes)
              /\ JsonEmptyArray(result.value.edges)

C36_OnePointPerMinute ==
    (result.fn = "GetTrafficMetrics" /\ ~result.err) =>
       LET pts == result.value.items
           \* the matching traces of the call: in the window, of a service asked for
           M == {r \in db : /\ result.start <= r.timestamp /\ r.timestamp <= result.end
                            /\ (result.names = {} \/ r.service_name \in result.names)}
           \* the matching traces of the minute that starts at ts
           InMinute(ts) == {r \in M : ts <= r.timestamp /\ r.timestamp < ts + SecondsPerMinute}
           RECURSIVE SumCounts(_)
           SumCounts(ps) == IF ps = <<>> THEN 0 ELSE Head(ps).count + SumCounts(Tail(ps))
       IN  /\ \A i \in 1..Len(pts) :
                 /\ pts[i].timestamp % SecondsPerMinute = 0
                 /\ InMinute(pts[i].timestamp) # {}
                 /\ pts[i].count = Cardinality(InMinute(pts[i].timestamp))
                 /\ pts[i].error_count =
                       Cardinality({r \in InMinute(pts[i].timestamp) : IsError(r.status)})
                 /\ pts[i].error_count <= pts[i].count
                 /\ \A j \in 1..Len(pts) : i < j => pts[i].timestamp < pts[j].timestamp
           /\ \A r \in M : \E i \in 1..Len(pts) : r \in InMinute(pts[i].timestamp)
           /\ SumCounts(pts) = Cardinality(M)

\* two points: two traces some seconds apart share the first minute, one of them in
\* error
C36_Witness ==
    /\ result.fn = "GetTrafficMetrics" /\ ~result.err
    /\ Len(result.value.items) = 2
    /\ result.value.items[1].count = 2
    /\ result.value.items[1].error_count = 1
    /\ \E r, q \in db :
          /\ r.timestamp # q.timestamp
          /\ Truncate(r.timestamp) = result.value.items[1].timestamp
          /\ Truncate(q.timestamp) = result.value.items[1].timestamp

\* C37: the ORDER BY clause of GetTracesFiltered is one of the five columns
\* timestamp, duration, service_name, status, trace_id followed by ASC or DESC; a
\* sortBy that is empty or not one of the five gives "timestamp DESC"; for one of the
\* five the direction is DESC when orderBy is exactly "desc" and ASC otherwise; no
\* other text of the caller is in the clause.
C37_OrderByWhitelisted ==
    (result.fn = "GetTracesFiltered" /\ result.order # "") =>
       LET columns == {"timestamp", "duration", "service_name", "status", "trace_id"}
       IN  /\ result.order \in
                 {"timestamp ASC", "timestamp DESC", "duration ASC", "duration DESC",
                  "service_name ASC", "service_name DESC", "status ASC", "status DESC",
                  "trace_id ASC", "trace_id DESC"}
           /\ result.sortBy \notin columns => result.order = "timestamp DESC"
           /\ result.sortBy \in columns =>
                 /\ result.orderBy = "desc" => result.order = result.sortBy \o " DESC"
                 /\ result.orderBy # "desc" => result.order = result.sortBy \o " ASC"

\* a caller asked for a column outside the whitelist with a direction that goes on
\* after "desc", and got the default clause
C37_Witness ==
    /\ result.fn = "GetTracesFiltered" /\ result.order # ""
    /\ result.sortBy = "timestamp; DROP TABLE traces"
    /\ result.orderBy = "desc; DROP TABLE traces"
    /\ result.order = "timestamp DESC"
    /\ result.total = 2

(***************************************************************************)
(* Web client: properties.                                                 *)
(***************************************************************************)
\* C38: after setTimeRange(v) the URL holds range=v and neither from nor to; after
\* setCustomRange(s, e) it holds from=s and to=e and no range; the effective range is
\* the range param when it is a known preset, otherwise "custom" when from and to are
\* both there, otherwise the default preset; the params other than range, from and to
\* are as they were before either setter.
C38_Claim ==
    /\ lastSet.op = "setTimeRange" =>
          /\ params["range"] = {lastSet.args[1]}
          /\ params["from"] = Absent /\ params["to"] = Absent
    /\ lastSet.op = "setCustomRange" =>
          /\ params["from"] = {lastSet.args[1]} /\ params["to"] = {lastSet.args[2]}
          /\ params["range"] = Absent
    /\ lastSet.op # "none" =>
          \A k \in ParamKeys \ {"range", "from", "to"} : params[k] = lastSet.before[k]
    /\ mounted =>
          TimeRange = IF /\ params["range"] \subseteq {"5m", "15m", "1h", "6h", "24h"}
                         /\ params["range"] # Absent
                      THEN CHOOSE v \in params["range"] : TRUE
                      ELSE IF Truthy(params["from"]) /\ Truthy(params["to"])
                           THEN "custom"
                           ELSE defaultRange

(***************************************************************************)
(* Hub: the send channels, the order of the entries, the stop.             *)
(***************************************************************************)
\* C24: whatever the order of the slow-client removal in flush, the unregister
\* of the client's writer and the stop of the hub, close(c.send) is called at
\* most once for a client, a client in the set has an open channel, and no step
\* of the hub queues a message in a channel that is closed.
C24_ClosedOnce ==
    /\ [](\A c \in Clients :
            /\ closes[c] <= 1
            /\ sendClosed[c] <=> closes[c] = 1
            /\ c \in clients => ~sendClosed[c])
    /\ [][ \A c \in Clients :
              Len(send'[c]) > Len(send[c]) => ~sendClosed[c] /\ ~sendClosed'[c]
         ]_vars

\* c1 was removed by flush as slow, its writer drained the channel and sent the
\* unregister, which the hub loop took: the channel has been closed once
C24_Witness ==
    /\ wr["c1"] = "close"
    /\ hdl["c1"] = "read"
    /\ SentTo("c1") # <<>>
    /\ delivered["c1"] = SentTo("c1")
    /\ closes["c1"] = 1

\* this step is a step of the goroutine running Run: one case of its select
RunStep ==
    \/ RunStopCase
    \/ \E c \in Clients : RunRegister(c)
    \/ \E c \in Clients : RunUnregister(c)
    \/ RunBroadcast
    \/ RunTick

\* C25: h.clients and h.buffer change only in steps of the goroutine running
\* Run; the handlers, the writers, Broadcast and Stop leave both as they are and
\* reach the hub through h.register, h.unregister, h.broadcast and h.stopCh.
C25_OnlyRunTouchesClientsAndBuffer ==
    [][ (clients' # clients \/ buffer' # buffer) => (hpc = "select" /\ RunStep) ]_vars

\* the set and the buffer are in use while a writer writes, Broadcast has been
\* called and Stop waits
C25_Witness ==
    /\ hpc = "select"
    /\ clients # {}
    /\ buffer # <<>>
    /\ \E c \in Clients : wr[c] = "write"
    /\ nextEntry > 1
    /\ hstopPc = "wait"

RECURSIVE Flatten(_)
\* the concatenation of a sequence of batches
Flatten(bs) == IF bs = <<>> THEN <<>> ELSE Head(bs) \o Flatten(Tail(bs))

\* the entries the loop has taken from h.broadcast, as flush log fl and buffer buf
\* hold them: the batches flushed, in flush order, then the entries waiting
TakenOf(fl, buf) == Flatten([i \in 1..Len(fl) |-> fl[i].batch]) \o buf

\* entries in the order Broadcast accepted them: their numbers ascend
Ascending(es) == \A i, j \in 1..Len(es) : i < j => es[i] < es[j]

\* C26: the batches the hub flushes, one after the other, followed by the
\* entries still buffered, are the entries the loop took from h.broadcast in the
\* order it took them: a step that takes an entry appends it, no other step
\* changes the sequence; and the entries a client is written, within and across
\* its messages, are in the order Broadcast accepted them.
C26_FifoBatches ==
    /\ [][ IF Len(broadcast') < Len(broadcast)
           THEN /\ broadcast' = Tail(broadcast)
                /\ TakenOf(flushLog', buffer') =
                      Append(TakenOf(flushLog, buffer), Head(broadcast))
           ELSE /\ TakenOf(flushLog', buffer') = TakenOf(flushLog, buffer)
                /\ \/ broadcast' = broadcast
                   \/ broadcast' = Append(broadcast, nextEntry)
         ]_vars
    /\ [](Ascending(TakenOf(flushLog, buffer) \o broadcast))
    /\ [](\A c \in Clients : Ascending(Flatten(delivered[c] \o InFlight(c) \o send[c])))

\* a client has been written two batches that hold three entries in order
C26_Witness ==
    /\ Len(flushLog) >= 2
    /\ \E c \in Clients :
          /\ Len(delivered[c]) >= 2
          /\ Flatten(delivered[c]) = <<1, 2, 3>>

C28_Claim ==
    \A c \in Clients :
        sendClosed[c] ~> (wr[c] = "done" /\ conn[c] = "closed")

\* the entries of sequence es
EntriesOf(es) == {es[i] : i \in 1..Len(es)}

\* the entries that are in a batch flush has taken
FlushedEntries == EntriesOf(TakenOf(flushLog, <<>>))

\* the entries Broadcast accepted before Stop was called
AcceptedBeforeStop == {e \in 1..(stopEntry - 1) : e \notin Dropped}

\* C29 as stated: when Run has exited, every entry that Broadcast accepted before
\* Stop was called is in a flushed batch.
C29_Claim ==
    hpc = "exited" => AcceptedBeforeStop \subseteq FlushedEntries

\* C29, amended: the stop case flushes the entries the loop has already taken
\* from h.broadcast (the buffer) and nothing else: the entries still queued in
\* the channel stay there, and after the loop has exited no entry is flushed or
\* taken from the channel any more.
C29_StopFlushesTakenEntriesOnly ==
    /\ [][ RunExits =>
             /\ broadcast' = broadcast
             /\ EntriesOf(buffer) \subseteq FlushedEntries'
             /\ FlushedEntries' = FlushedEntries \cup EntriesOf(buffer)
         ]_vars
    /\ [][ hpc = "exited" =>
             /\ flushLog' = flushLog
             /\ buffer' = buffer
             /\ \/ broadcast' = broadcast
                \/ broadcast' = Append(broadcast, nextEntry)
         ]_vars

\* the loop has exited after the stop flushed an entry, and another entry that
\* was accepted before Stop was called is still in h.broadcast
C29_Witness ==
    /\ hpc = "exited"
    /\ flushLog # <<>>
    /\ flushLog[Len(flushLog)].cause = "stop"
    /\ \E i \in 1..Len(broadcast) : broadcast[i] < stopEntry

(***************************************************************************)
(* The ingestion filter.                                                   *)
(***************************************************************************)
Filtered == fverdict # "none"

Admitted == fverdict = "admit"

Excluded == frec.service_name \in fcfg.excluded_services

AllowMiss ==
    fcfg.allowed_services # {} /\ frec.service_name \notin fcfg.allowed_services

BelowMinSeverity ==
    /\ frec.kind = "log"
    /\ SeverityNumeric(frec.severity) < SeverityNumeric(fcfg.min_severity)

\* C21: for every record and configuration the filter denies a service of the
\* exclude list, also when the allow list names it; otherwise denies a service
\* missing from a non-empty allow list; otherwise denies a log below the minimum
\* severity; otherwise admits; a trace is never denied for its severity.
C21_FixedRuleOrder ==
    Filtered =>
       /\ Excluded => fverdict = "deny"
       /\ ~Excluded /\ AllowMiss => fverdict = "allow-miss"
       /\ ~Excluded /\ ~AllowMiss /\ BelowMinSeverity => fverdict = "severity"
       /\ ~Excluded /\ ~AllowMiss /\ ~BelowMinSeverity => Admitted
       /\ frec.kind = "trace" => fverdict # "severity"
       /\ frec.kind = "trace" /\ ~Excluded /\ ~AllowMiss => Admitted
       /\ frec.kind = "log" /\ ~Excluded /\ ~AllowMiss /\ fcfg.min_severity = "WARN" =>
             (Admitted <=> frec.severity \in {"WARN", "ERROR", "FATAL"})

\* a service on both lists has been denied
C21_Witness ==
    /\ Filtered
    /\ frec.service_name \in fcfg.allowed_services \cap fcfg.excluded_services
    /\ ~Admitted

(***************************************************************************)
(* The snapshot hub.                                                       *)
(***************************************************************************)
\* a snapshot has been recomputed
Recomputed == recomputed # NoRecompute

\* C23: the NotifyRefresh calls of one debounce window, however many, lead to one
\* recompute: while calls are pending exactly one timer is set, the recompute
\* takes them all and leaves no timer behind; and a recompute comes no sooner
\* than T_debounce after the snapshot before it.
C23_Debounced ==
    /\ Cardinality(timer) <= 1
    /\ notified > 0 <=> timer # {}
    /\ \A d \in timer : d >= lastSnapshot + T_debounce
    /\ Recomputed =>
          /\ recomputed.at - recomputed.prev >= T_debounce
          /\ recomputed.notified >= 1
          /\ lastSnapshot >= recomputed.at

\* several calls within one window have led to one recompute, after an earlier snapshot
C23_Witness ==
    /\ Recomputed
    /\ recomputed.notified >= 2
    /\ recomputed.prev >= 0
    /\ timer = {}

====
